---- MODULE Spec2Model ----
(***************************************************************************)
(* mcp-bundler: the bundle / connection stores (store script, Alpine       *)
(* stores 'bundles' and 'connections'), the app component's handlers that  *)
(* mutate them, and the bundle share codec (packBundle, unpackBundle,      *)
(* importFromURL, confirmImport, oembed.php).                              *)
(*                                                                         *)
(* Time is the reading of Date.now() in milliseconds; a bundle id is that  *)
(* reading as a string, `created` and `updated` are that reading.  Several *)
(* operations may run at the same reading (tick is a separate step).       *)
(*                                                                         *)
(* Spec is the app with its stores; SpecCodec applies the share codec to   *)
(* inputs drawn by its initial state; SpecExport synthesizes and exports   *)
(* drawn packages.  SpecConnections runs the operations addressed by an    *)
(* id, SpecIds creates bundles by hand and by import, SpecSave and         *)
(* SpecCache follow the debounced saves and the cache while time passes.   *)
(* SpecFair is the bundle store with timers that fire and a clock that     *)
(* runs.  SpecCatalogue and SpecLegacy load the catalogue view, add from   *)
(* it and import legacy links against it; SpecRequests follows the loads   *)
(* of the view through the microtask queue, SpecDatabase the calls of the  *)
(* database module, SpecCredentials the passphrase-protected store.        *)
(***************************************************************************)
EXTENDS Integers, Naturals, Sequences, FiniteSets, TLC

VARIABLES
    bundles,        \* Alpine.store('bundles').items
    connections,    \* Alpine.store('connections').items
    nextConn,       \* number of connection ids generated so far
    now,            \* Date.now()
    saveTimeouts,   \* saveTimeouts: for each key with a pending timer, when it is due
    cache,          \* Alpine.store('cache').data
    localStorage,   \* localStorage: for each key written, the value stored
    importPreview,  \* app.importPreview
    currentView,    \* app.currentView
    last,           \* the operation that ran last, its arguments and outcome
    codec,          \* SpecCodec: the codec's input and what it made of it
    synth,          \* SpecExport: the package drawn and the configs made of it
    view,           \* the app component's catalogue view: servers, selection, loads
    database,       \* the MCPDatabase singleton and the calls waiting for it
    credentialsStore \* Alpine.store('credentials') of the store script

vars == <<bundles, connections, nextConn, now, saveTimeouts, cache, localStorage,
          importPreview, currentView, last, codec, synth,
          view, database, credentialsStore>>

------------------------------------------------------------------------------
(* Bounds of the model *)

MaxBundles == 1
MaxConnections == 1
MaxTime == 1
MaxServers == 2

------------------------------------------------------------------------------
(* Values *)

NULL == "null"

\* ids of the catalogue entries the app has loaded (this.servers), in list order
Catalogue == <<"1a2b3c4d-e5f6", "abc123">>

CatalogueIds == {Catalogue[i] : i \in DOMAIN Catalogue}

\* server ids a bundle to be shared may hold: the catalogue's and others
ServerIds ==
    CatalogueIds \cup {"0a1b2c3d-0000", "ABCDEF12-9", "deadbeefcafe", "12g4abcd", "io.github"}

\* the code units of each server id
IdText(id) ==
    CASE id = "1a2b3c4d-e5f6" -> <<49, 97, 50, 98, 51, 99, 52, 100, 45, 101, 53, 102, 54>>
      [] id = "abc123" -> <<97, 98, 99, 49, 50, 51>>
      [] id = "0a1b2c3d-0000" -> <<48, 97, 49, 98, 50, 99, 51, 100, 45, 48, 48, 48, 48>>
      [] id = "ABCDEF12-9" -> <<65, 66, 67, 68, 69, 70, 49, 50, 45, 57>>
      [] id = "deadbeefcafe" -> <<100, 101, 97, 100, 98, 101, 101, 102, 99, 97, 102, 101>>
      [] id = "12g4abcd" -> <<49, 50, 103, 52, 97, 98, 99, 100>>
      [] id = "io.github" -> <<105, 111, 46, 103, 105, 116, 104, 117, 98>>
      [] id = "abc" -> <<97, 98, 99>>

PackageIndexes == {0, 1}

\* " Dev" (create trims the name, update does not)
BundleNames == {<<32, 68, 101, 118>>}

Times == 0..MaxTime

\* every string Date.now().toString() can be within the clock's range
BundleIds == {ToString(t) : t \in Times}

ConnectionIds == 1..MaxConnections

STORAGE_KEYS == [bundles |-> "mcp-catalogue:v1:bundles",
                 connections |-> "mcp-catalogue:v1:connections",
                 credentials |-> "mcp-catalogue:v1:credentials",
                 cache |-> "mcp-catalogue:v1:cache"]

\* the record kept in `last`: operation, outcome, and the arguments it had
\* (bundle id, server id, connection id, package index or number of preview
\* entries, number of the share link, decoder that read the link)
NoOp == [op |-> "init", out |-> "ok", b |-> NULL, s |-> NULL, c |-> 0, p |-> 0,
         tok |-> 0, path |-> "none"]

\* app.importPreview when it is null
NoPreview == [t |-> "null"]

\* SpecCodec's record: the bundle shared (with the app's packBundle, or as
\* the legacy JSON), the clock reading, the link, what packBundle returned
\* and what the decoder applied last returned
NoCodec == [stage |-> "none", bundle |-> NULL, ms |-> 0, token |-> <<>>,
            packed |-> NULL, result |-> NULL]

\* SpecExport's record before a package is drawn
NoSynth == [stage |-> "none"]

------------------------------------------------------------------------------
(* Text and bytes.  A text is a sequence of UTF-16 code units, a byte string a *)
(* sequence of numbers below 256; a 32-bit unsigned integer is kept as its    *)
(* eight hexadecimal digits (nibbles), most significant first.                *)

Min(a, b) == IF a < b THEN a ELSE b

\* String.prototype.substring(0, n)
Substring(text, n) == SubSeq(text, 1, Min(n, Len(text)))

\* String.prototype.startsWith
StartsWith(text, prefix) ==
    /\ Len(prefix) <= Len(text)
    /\ SubSeq(text, 1, Len(prefix)) = prefix

RECURSIVE Flatten(_)
\* the concatenation of a sequence of sequences
Flatten(seqs) ==
    IF Len(seqs) = 0 THEN <<>>
    ELSE IF Len(seqs) = 1 THEN seqs[1]
    ELSE LET half == Len(seqs) \div 2 IN
         Flatten(SubSeq(seqs, 1, half)) \o Flatten(SubSeq(seqs, half + 1, Len(seqs)))

\* the white space String.prototype.trim and parseInt strip (the part below 256)
IsJsSpace(u) == u \in {9, 10, 11, 12, 13, 32, 160}

RECURSIVE TrimStart(_)
TrimStart(text) ==
    IF text # <<>> /\ IsJsSpace(Head(text)) THEN TrimStart(Tail(text)) ELSE text

RECURSIVE TrimEnd(_)
TrimEnd(text) ==
    IF text # <<>> /\ IsJsSpace(text[Len(text)])
    THEN TrimEnd(SubSeq(text, 1, Len(text) - 1))
    ELSE text

\* String.prototype.trim
Trim(text) == TrimEnd(TrimStart(text))

\* the value of a hexadecimal digit character, 16 for any other code unit
HexValue(u) ==
    IF u >= 48 /\ u <= 57 THEN u - 48
    ELSE IF u >= 97 /\ u <= 102 THEN u - 87
    ELSE IF u >= 65 /\ u <= 70 THEN u - 55
    ELSE 16

\* the character Number.prototype.toString(16) writes for a digit
HexChar(d) == IF d < 10 THEN 48 + d ELSE 87 + d

RECURSIVE HexPrefix(_)
\* the values of the longest run of hexadecimal digits a text starts with
HexPrefix(text) ==
    IF text # <<>> /\ HexValue(Head(text)) < 16
    THEN <<HexValue(Head(text))>> \o HexPrefix(Tail(text))
    ELSE <<>>

Zeros(n) == [i \in 1..n |-> 0]

\* the low 32 bits of a natural number given by its hexadecimal digits
Low32(digits) ==
    IF Len(digits) >= 8 THEN SubSeq(digits, Len(digits) - 7, Len(digits))
    ELSE Zeros(8 - Len(digits)) \o digits

RECURSIVE Increment(_)
\* digits + 1 modulo 16^Len(digits)
Increment(digits) ==
    IF digits = <<>> THEN <<>>
    ELSE IF digits[Len(digits)] < 15
    THEN [digits EXCEPT ![Len(digits)] = @ + 1]
    ELSE Increment(SubSeq(digits, 1, Len(digits) - 1)) \o <<0>>

\* 2^32 - n modulo 2^32, for n given by eight digits
Negate32(digits) == Increment([i \in 1..8 |-> 15 - digits[i]])

\* parseInt(text, 16) followed by ToUint32 (DataView.setUint32 applies it):
\* leading white space, a sign, a 0x prefix, then the longest run of digits;
\* NaN (no digit) becomes 0
ParseIntHexUint32(text) ==
    LET t0 == TrimStart(text)
        negative == t0 # <<>> /\ Head(t0) = 45
        t1 == IF t0 # <<>> /\ Head(t0) \in {43, 45} THEN Tail(t0) ELSE t0
        t2 == IF Len(t1) >= 2 /\ t1[1] = 48 /\ t1[2] \in {88, 120}
              THEN SubSeq(t1, 3, Len(t1)) ELSE t1
        magnitude == Low32(HexPrefix(t2))
    IN  IF negative THEN Negate32(magnitude) ELSE magnitude

\* DataView.setUint32(offset, v, false): four bytes, big-endian
Uint32Bytes(digits) == [i \in 1..4 |-> 16 * digits[2 * i - 1] + digits[2 * i]]

\* DataView.getUint32(offset, false) of four bytes
BytesUint32(bytes) ==
    [i \in 1..8 |-> IF i % 2 = 1 THEN bytes[(i + 1) \div 2] \div 16
                    ELSE bytes[i \div 2] % 16]

\* the eight digits of a number below 2^31
NatDigits(n) == [i \in 1..8 |-> (n \div (16 ^ (8 - i))) % 16]

\* the number eight digits stand for, when it is below 2^31
DigitsNat(digits) ==
    LET RECURSIVE Value(_)
        Value(k) == IF k = 0 THEN 0 ELSE 16 * Value(k - 1) + digits[k]
    IN  Value(8)

RECURSIVE StripZeros(_)
StripZeros(digits) ==
    IF Len(digits) > 1 /\ Head(digits) = 0 THEN StripZeros(Tail(digits)) ELSE digits

\* n.toString(16)
ToString16(digits) == [i \in 1..Len(StripZeros(digits)) |-> HexChar(StripZeros(digits)[i])]

\* PadStart8 without the padding: C6_HexPrefixesRoundTrip tells them apart
PadStart8_unpadded(text) == text

\* text.padStart(8, '0')
PadStart8(text) ==
    IF Len(text) >= 8 THEN text ELSE [i \in 1..(8 - Len(text)) |-> 48] \o text

------------------------------------------------------------------------------
(* UTF-8 (TextEncoder, TextDecoder) *)

IsHighSurrogate(u) == u >= 55296 /\ u <= 56319
IsLowSurrogate(u) == u >= 56320 /\ u <= 57343

\* the UTF-8 bytes of a code point
EncodeCodePoint(cp) ==
    IF cp < 128 THEN <<cp>>
    ELSE IF cp < 2048 THEN <<192 + (cp \div 64), 128 + (cp % 64)>>
    ELSE IF cp < 65536
    THEN <<224 + (cp \div 4096), 128 + ((cp \div 64) % 64), 128 + (cp % 64)>>
    ELSE <<240 + (cp \div 262144), 128 + ((cp \div 4096) % 64),
           128 + ((cp \div 64) % 64), 128 + (cp % 64)>>

\* the bytes new TextEncoder().encode(text) writes for the code unit at i: a
\* surrogate pair is one code point written at its first unit, a lone
\* surrogate is written as U+FFFD
EncodeAt(text, i) ==
    LET u == text[i] IN
    IF IsHighSurrogate(u) /\ i < Len(text) /\ IsLowSurrogate(text[i + 1])
    THEN EncodeCodePoint(65536 + (u - 55296) * 1024 + (text[i + 1] - 56320))
    ELSE IF IsLowSurrogate(u) /\ i > 1 /\ IsHighSurrogate(text[i - 1])
    THEN <<>>
    ELSE IF IsHighSurrogate(u) \/ IsLowSurrogate(u)
    THEN EncodeCodePoint(65533)
    ELSE EncodeCodePoint(u)

\* new TextEncoder().encode(text)
TextEncode(text) == Flatten([i \in DOMAIN text |-> EncodeAt(text, i)])

\* the UTF-16 code units of a code point
CodeUnits(cp) ==
    IF cp < 65536 THEN <<cp>>
    ELSE <<55296 + ((cp - 65536) \div 1024), 56320 + ((cp - 65536) % 1024)>>

\* the UTF-8 decoder of the Encoding standard, errors replaced by U+FFFD.
\* A lead byte always starts a sequence (the decoder puts back a byte that
\* does not continue the one in progress), so what each byte yields is
\* decided by the three bytes around it.

\* the number of continuation bytes a lead byte asks for, 0 for other bytes
Needed(b) ==
    IF b >= 194 /\ b <= 223 THEN 1
    ELSE IF b >= 224 /\ b <= 239 THEN 2
    ELSE IF b >= 240 /\ b <= 244 THEN 3
    ELSE 0

\* the k-th byte after the lead at i lies in the range the decoder accepts
Continues(bytes, i, k) ==
    /\ i + k <= Len(bytes)
    /\ LET b == bytes[i]
           c == bytes[i + k]
           lower == IF k > 1 THEN 128 ELSE IF b = 224 THEN 160 ELSE IF b = 240 THEN 144 ELSE 128
           upper == IF k > 1 THEN 191 ELSE IF b = 237 THEN 159 ELSE IF b = 244 THEN 143 ELSE 191
       IN  c >= lower /\ c <= upper

\* how many bytes after the lead at i the decoder takes into its sequence
Accepted(bytes, i) ==
    IF Needed(bytes[i]) >= 1 /\ Continues(bytes, i, 1)
    THEN IF Needed(bytes[i]) >= 2 /\ Continues(bytes, i, 2)
         THEN IF Needed(bytes[i]) >= 3 /\ Continues(bytes, i, 3) THEN 3 ELSE 2
         ELSE 1
    ELSE 0

\* the code units the decoder emits for the byte at i
DecodeAt(bytes, i) ==
    LET b == bytes[i]
        C(k) == bytes[i + k] % 64
    IN  IF b < 128 THEN <<b>>
        ELSE IF Needed(b) > 0
        THEN IF Accepted(bytes, i) < Needed(b) THEN <<65533>>
             ELSE IF Needed(b) = 1 THEN CodeUnits((b % 32) * 64 + C(1))
             ELSE IF Needed(b) = 2 THEN CodeUnits((b % 16) * 4096 + C(1) * 64 + C(2))
             ELSE CodeUnits((b % 8) * 262144 + C(1) * 4096 + C(2) * 64 + C(3))
        ELSE IF b <= 191 /\ \E d \in 1..3 : i - d >= 1 /\ Accepted(bytes, i - d) >= d
        THEN <<>>
        ELSE <<65533>>

Utf8Decode(bytes) == Flatten([i \in DOMAIN bytes |-> DecodeAt(bytes, i)])

\* new TextDecoder().decode(bytes): a leading byte order mark is dropped
TextDecode(bytes) ==
    LET body == IF Len(bytes) >= 3 /\ SubSeq(bytes, 1, 3) = <<239, 187, 191>>
                THEN SubSeq(bytes, 4, Len(bytes)) ELSE bytes
    IN  Utf8Decode(body)

------------------------------------------------------------------------------
(* Base64 (btoa, atob, PHP base64_decode) *)

\* the character of a 6-bit value in the standard alphabet
Base64Char(v) ==
    IF v < 26 THEN 65 + v
    ELSE IF v < 52 THEN 71 + v
    ELSE IF v < 62 THEN v - 4
    ELSE IF v = 62 THEN 43 ELSE 47

\* the 6-bit value of a character of the standard alphabet, 64 for any other
Base64Value(ch) ==
    IF ch >= 65 /\ ch <= 90 THEN ch - 65
    ELSE IF ch >= 97 /\ ch <= 122 THEN ch - 71
    ELSE IF ch >= 48 /\ ch <= 57 THEN ch + 4
    ELSE IF ch = 43 THEN 62
    ELSE IF ch = 47 THEN 63
    ELSE 64

\* bytes[i], 0 past the end
ByteAt(bytes, i) == IF i <= Len(bytes) THEN bytes[i] ELSE 0

\* btoa(String.fromCharCode(...bytes)): padded standard Base64
btoa(bytes) ==
    LET n == Len(bytes)
        groups == (n + 2) \div 3
        Sextet(g, k) ==
            LET b1 == ByteAt(bytes, 3 * g - 2)
                b2 == ByteAt(bytes, 3 * g - 1)
                b3 == ByteAt(bytes, 3 * g)
            IN  CASE k = 1 -> b1 \div 4
                  [] k = 2 -> (b1 % 4) * 16 + (b2 \div 16)
                  [] k = 3 -> (b2 % 16) * 4 + (b3 \div 64)
                  [] OTHER -> b3 % 64
    IN  [i \in 1..(4 * groups) |->
            LET g == (i + 3) \div 4
                k == ((i - 1) % 4) + 1
            IN  IF (k = 3 /\ 3 * g - 1 > n) \/ (k = 4 /\ 3 * g > n)
                THEN 61
                ELSE Base64Char(Sextet(g, k))]

\* the bytes a run of 6-bit values stands for: floor(6n / 8) of them
SextetsToBytes(vals) ==
    [j \in 1..((Len(vals) * 6) \div 8) |->
        LET g == (j - 1) \div 3
            k == (j - 1) % 3
        IN  CASE k = 0 -> vals[4 * g + 1] * 4 + (vals[4 * g + 2] \div 16)
              [] k = 1 -> (vals[4 * g + 2] % 16) * 16 + (vals[4 * g + 3] \div 4)
              [] OTHER -> (vals[4 * g + 3] % 4) * 64 + vals[4 * g + 4]]

\* atob(text) (forgiving-base64 decode): [ok, bytes]; not ok when it throws
atob(text) ==
    LET t0 == SelectSeq(text, LAMBDA ch : ch \notin {9, 10, 12, 13, 32})
        n0 == Len(t0)
        t1 == IF n0 % 4 = 0 /\ n0 >= 2 /\ t0[n0] = 61 /\ t0[n0 - 1] = 61
              THEN SubSeq(t0, 1, n0 - 2)
              ELSE IF n0 % 4 = 0 /\ n0 >= 1 /\ t0[n0] = 61
              THEN SubSeq(t0, 1, n0 - 1)
              ELSE t0
    IN  IF Len(t1) % 4 = 1 \/ \E i \in DOMAIN t1 : Base64Value(t1[i]) = 64
        THEN [ok |-> FALSE, bytes |-> <<>>]
        ELSE [ok |-> TRUE,
              bytes |-> SextetsToBytes([i \in DOMAIN t1 |-> Base64Value(t1[i])])]

\* PHP base64_decode(text) (not strict): characters outside the alphabet and
\* padding are skipped, it never fails
base64_decode(text) ==
    LET kept == SelectSeq(text, LAMBDA ch : Base64Value(ch) # 64)
    IN  SextetsToBytes([i \in DOMAIN kept |-> Base64Value(kept[i])])

\* text.replace(/-/g, '+').replace(/_/g, '/'), PHP strtr(text, '-_', '+/')
FromUrlSafe(text) ==
    [i \in DOMAIN text |-> IF text[i] = 45 THEN 43 ELSE IF text[i] = 95 THEN 47 ELSE text[i]]

RECURSIVE StripPadding(_)
\* text.replace(/=+$/, '')
StripPadding(text) ==
    IF text # <<>> /\ text[Len(text)] = 61
    THEN StripPadding(SubSeq(text, 1, Len(text) - 1))
    ELSE text

\* base64.replace(/\+/g, '-').replace(/\//g, '_').replace(/=+$/, '')
ToUrlSafe(text) ==
    StripPadding([i \in DOMAIN text |->
        IF text[i] = 43 THEN 45 ELSE IF text[i] = 47 THEN 95 ELSE text[i]])

------------------------------------------------------------------------------
(* JSON.parse, for the JSON a share link can carry: objects, arrays, strings  *)
(* without escapes, integers and the three literals.  A value is a record     *)
(* tagged by t; an object keeps its keys and values as two sequences.          *)

UNDEFINED == [t |-> "undefined"]
JsNull == [t |-> "null"]
JsString(text) == [t |-> "str", v |-> text]
JsArray(items) == [t |-> "arr", v |-> items]
JsObject(keys, vals) == [t |-> "obj", k |-> keys, v |-> vals]

Fail == [ok |-> FALSE, v |-> UNDEFINED, i |-> 0]
Parsed(v, i) == [ok |-> TRUE, v |-> v, i |-> i]

RECURSIVE SkipSpace(_, _)
SkipSpace(s, i) ==
    IF i <= Len(s) /\ s[i] \in {9, 10, 13, 32} THEN SkipSpace(s, i + 1) ELSE i

RECURSIVE StringEnd(_, _)
\* the index of the quote that closes a string whose text starts at i, 0 if none
StringEnd(s, i) ==
    IF i > Len(s) \/ s[i] < 32 \/ s[i] = 92 THEN 0
    ELSE IF s[i] = 34 THEN i
    ELSE StringEnd(s, i + 1)

RECURSIVE DigitsEnd(_, _)
DigitsEnd(s, i) ==
    IF i <= Len(s) /\ s[i] >= 48 /\ s[i] <= 57 THEN DigitsEnd(s, i + 1) ELSE i

Literal(s, i, word) == i + Len(word) - 1 <= Len(s) /\ SubSeq(s, i, i + Len(word) - 1) = word

RECURSIVE ParseValue(_, _), ParseItems(_, _, _), ParseMembers(_, _, _, _)

\* a string whose text starts at i and whose closing quote is at e (0: none)
StringAt(s, i, e) ==
    IF e = 0 THEN Fail ELSE Parsed(JsString(SubSeq(s, i, e - 1)), e + 1)

\* a number whose digits run from d to before e
NumberAt(s, d, e) ==
    IF e = d \/ (s[d] = 48 /\ e > d + 1) \/ (e <= Len(s) /\ s[e] \in {46, 69, 101})
    THEN Fail
    ELSE Parsed([t |-> "num", v |-> SubSeq(s, d, e - 1)], e)

NumberFrom(s, d) == NumberAt(s, d, DigitsEnd(s, d))

\* an array whose bracket is at i, j being the next index that is not space
ArrayAt(s, i, j) ==
    IF j <= Len(s) /\ s[j] = 93 THEN Parsed(JsArray(<<>>), j + 1)
    ELSE ParseItems(s, i + 1, <<>>)

\* an object whose brace is at i, j being the next index that is not space
ObjectAt(s, i, j) ==
    IF j <= Len(s) /\ s[j] = 125 THEN Parsed(JsObject(<<>>, <<>>), j + 1)
    ELSE ParseMembers(s, i + 1, <<>>, <<>>)

\* the value that starts at index i
ValueAt(s, i) ==
    IF i > Len(s) THEN Fail
    ELSE IF s[i] = 34 THEN StringAt(s, i + 1, StringEnd(s, i + 1))
    ELSE IF s[i] = 91 THEN ArrayAt(s, i, SkipSpace(s, i + 1))
    ELSE IF s[i] = 123 THEN ObjectAt(s, i, SkipSpace(s, i + 1))
    ELSE IF Literal(s, i, <<110, 117, 108, 108>>) THEN Parsed(JsNull, i + 4)
    ELSE IF Literal(s, i, <<116, 114, 117, 101>>) THEN Parsed([t |-> "bool", b |-> TRUE], i + 4)
    ELSE IF Literal(s, i, <<102, 97, 108, 115, 101>>) THEN Parsed([t |-> "bool", b |-> FALSE], i + 5)
    ELSE NumberFrom(s, IF s[i] = 45 THEN i + 1 ELSE i)

\* the value that starts at or after index i, and the index after it
ParseValue(s, i) == ValueAt(s, SkipSpace(s, i))

\* what follows the array item r, j being the next index that is not space
AfterItem(s, acc, r, j) ==
    IF j > Len(s) THEN Fail
    ELSE IF s[j] = 44 THEN ParseItems(s, j + 1, Append(acc, r.v))
    ELSE IF s[j] = 93 THEN Parsed(JsArray(Append(acc, r.v)), j + 1)
    ELSE Fail

ItemParsed(s, acc, r) == IF ~r.ok THEN Fail ELSE AfterItem(s, acc, r, SkipSpace(s, r.i))

\* the items of an array after its bracket or a comma, up to its closing bracket
ParseItems(s, i, acc) == ItemParsed(s, acc, ParseValue(s, i))

\* what follows the object member of value r, j being the next index that is
\* not space
AfterMember(s, keys, vals, j) ==
    IF j > Len(s) THEN Fail
    ELSE IF s[j] = 44 THEN ParseMembers(s, j + 1, keys, vals)
    ELSE IF s[j] = 125 THEN Parsed(JsObject(keys, vals), j + 1)
    ELSE Fail

MemberParsed(s, keys, vals, key, r) ==
    IF ~r.ok THEN Fail
    ELSE AfterMember(s, Append(keys, key), Append(vals, r.v), SkipSpace(s, r.i))

\* the member whose key text runs from i to before the quote at e, c being the
\* index of the colon
MemberValue(s, keys, vals, i, e, c) ==
    IF e = 0 \/ c > Len(s) \/ s[c] # 58 THEN Fail
    ELSE MemberParsed(s, keys, vals, SubSeq(s, i, e - 1), ParseValue(s, c + 1))

MemberKey(s, keys, vals, i, e) == MemberValue(s, keys, vals, i, e, SkipSpace(s, e + 1))

MemberAt(s, keys, vals, i) ==
    IF i > Len(s) \/ s[i] # 34 THEN Fail
    ELSE MemberKey(s, keys, vals, i + 1, StringEnd(s, i + 1))

\* the members of an object after its brace or a comma, up to its closing brace
ParseMembers(s, i, keys, vals) == MemberAt(s, keys, vals, SkipSpace(s, i))

\* the whole text is one value
WholeText(text, r) ==
    IF r.ok /\ SkipSpace(text, r.i) > Len(text)
    THEN [ok |-> TRUE, v |-> r.v]
    ELSE [ok |-> FALSE, v |-> UNDEFINED]

\* JSON.parse(text): [ok, v]; not ok when it throws
JSONparse(text) == WholeText(text, ParseValue(text, 1))

\* value[key] of a parsed value: the last member of that name, else undefined
Get(value, key) ==
    IF value.t = "obj" /\ \E i \in DOMAIN value.k : value.k[i] = key
    THEN value.v[CHOOSE i \in DOMAIN value.k :
                    /\ value.k[i] = key
                    /\ \A j \in DOMAIN value.k : value.k[j] = key => j <= i]
    ELSE UNDEFINED

\* !!value
Truthy(value) ==
    CASE value.t = "str" -> value.v # <<>>
      [] value.t = "num" -> \E i \in DOMAIN value.v : value.v[i] # 48
      [] value.t = "bool" -> value.b
      [] value.t \in {"obj", "arr"} -> TRUE
      [] OTHER -> FALSE

\* the property names the codec reads
KeyName == <<110, 97, 109, 101>>
KeyServers == <<115, 101, 114, 118, 101, 114, 115>>
KeyServerId == <<115, 101, 114, 118, 101, 114, 73, 100>>
KeyDescription == <<100, 101, 115, 99, 114, 105, 112, 116, 105, 111, 110>>
KeySharedTime == <<115, 104, 97, 114, 101, 100, 84, 105, 109, 101>>

------------------------------------------------------------------------------
(* The share codec of the app component *)

\* the bytes a packed name may have (nameBytes.length > 255 throws)
MaxNameBytes == 255

\* the limit of the code units kept set to the limit of the bytes:
\* C7_NameIsCutToFiftyUnits tells them apart
MaxNameChars_asBytes == MaxNameBytes

\* the code units of the name that substring(0, 50) keeps
MaxNameChars == 50

\* packBundle(bundle) at clock reading ms (milliseconds): [ok, bytes]; not ok
\* when it throws 'Bundle name too long after UTF-8 encoding'
packBundle(bundle, ms) ==
    LET name == Substring(bundle.name, MaxNameChars)
        nameBytes == TextEncode(name)
        serverIds == [i \in DOMAIN bundle.servers |->
                         Substring(IdText(bundle.servers[i].serverId), 8)]
        sharedTime == ms \div 1000
    IN  IF Len(nameBytes) > MaxNameBytes
        THEN [ok |-> FALSE, bytes |-> <<>>]
        ELSE [ok |-> TRUE,
              bytes |-> <<Len(nameBytes)>>
                        \o Uint32Bytes(NatDigits(sharedTime))
                        \o nameBytes
                        \o Flatten([i \in DOMAIN serverIds |->
                                      Uint32Bytes(ParseIntHexUint32(serverIds[i]))])]

\* unpackBundle(binaryData): [ok, v]; not ok when a DataView read is out of
\* range.  v is the object { name, sharedTime, servers }
unpackBundle(binaryData) ==
    LET n == Len(binaryData) IN
    IF n < 5 THEN [ok |-> FALSE, v |-> UNDEFINED]
    ELSE LET nameLength == binaryData[1]
             sharedTime == BytesUint32(SubSeq(binaryData, 2, 5))
             nameBytes == SubSeq(binaryData, 6, Min(5 + nameLength, n))
             name == TextDecode(nameBytes)
             left == n - 5 - nameLength
             count == IF left <= 0 THEN 0 ELSE left \div 4
             servers == [i \in 1..count |->
                 JsString(PadStart8(ToString16(BytesUint32(
                     SubSeq(binaryData, 6 + nameLength + 4 * (i - 1),
                                        9 + nameLength + 4 * (i - 1))))))]
         IN  IF left > 0 /\ left % 4 # 0
             THEN [ok |-> FALSE, v |-> UNDEFINED]
             ELSE [ok |-> TRUE,
                   v |-> JsObject(<<KeyName, KeySharedTime, KeyServers>>,
                                  <<JsString(name),
                                    [t |-> "uint32", v |-> sharedTime],
                                    JsArray(servers)>>)]

\* shareBundle(bundle): the token after preview.html#/
shareToken(bundle, ms) == ToUrlSafe(btoa(packBundle(bundle, ms).bytes))

\* the catch block of JSON.parse: unpackBundle of the decoded bytes
decodeBinary(binary) == [ok |-> binary.ok, path |-> "binary", v |-> binary.v]

\* decodeJson choosing by the payload's size, as oembed.php does:
\* C9_JsonFirstInAppBinaryFirstInOembed tells them apart
decodeJson_bySize(json, bytes) ==
    IF Len(bytes) >= 5 THEN decodeBinary(unpackBundle(bytes))
    ELSE IF json.ok THEN [ok |-> TRUE, path |-> "json", v |-> json.v]
    ELSE decodeBinary(unpackBundle(bytes))

\* JSON.parse(decoded) first; unpackBundle when it throws
decodeJson(json, bytes) ==
    IF json.ok THEN [ok |-> TRUE, path |-> "json", v |-> json.v]
    ELSE decodeBinary(unpackBundle(bytes))

\* decodeBytes without the JSON attempt: C8_LegacyLinkImports tells them apart
decodeBytes_binaryOnly(decoded) ==
    IF ~decoded.ok THEN [ok |-> FALSE, path |-> "none", v |-> UNDEFINED]
    ELSE decodeBinary(unpackBundle(decoded.bytes))

\* what importFromURL reads from the string atob returned
decodeBytes(decoded) ==
    IF ~decoded.ok THEN [ok |-> FALSE, path |-> "none", v |-> UNDEFINED]
    ELSE decodeJson(JSONparse(decoded.bytes), decoded.bytes)

\* the first steps of importFromURL: atob, then JSON.parse, then unpackBundle
\* when JSON.parse throws.  path names the decoder that gave the value
decodeShared(encodedData) == decodeBytes(atob(FromUrlSafe(encodedData)))

\* String(value), as startsWith applies it to its argument
ToStringJs(value) ==
    CASE value.t \in {"str", "num"} -> value.v
      [] value.t = "null" -> <<110, 117, 108, 108>>
      [] value.t = "bool" -> IF value.b THEN <<116, 114, 117, 101>>
                             ELSE <<102, 97, 108, 115, 101>>
      [] value.t = "undefined" -> <<117, 110, 100, 101, 102, 105, 110, 101, 100>>
      [] OTHER -> <<91, 111, 98, 106, 101, 99, 116, 32, 79, 98, 106, 101, 99, 116, 93>>

\* typeof serverEntry === 'string' ? serverEntry : serverEntry.serverId
entryServerId(serverEntry) ==
    IF serverEntry.t = "str" THEN serverEntry ELSE Get(serverEntry, KeyServerId)

\* this.servers.find(s => s.id === serverId || s.id.startsWith(serverId)):
\* the index of the first such catalogue entry, 0 for undefined
findServer(serverId) ==
    LET Match(i) == StartsWith(IdText(Catalogue[i]), ToStringJs(serverId)) IN
    IF \E i \in DOMAIN Catalogue : Match(i)
    THEN CHOOSE i \in DOMAIN Catalogue : Match(i) /\ \A j \in DOMAIN Catalogue : Match(j) => i <= j
    ELSE 0

\* the preview importFromURL builds from the valid entries
previewOf(sharedBundle, validServers, invalidServers) ==
    [t |-> "obj",
     name |-> Get(sharedBundle, KeyName),
     description |-> Get(sharedBundle, KeyDescription),
     servers |-> [k \in DOMAIN validServers |->
                     Catalogue[findServer(entryServerId(validServers[k]))]],
     invalidServers |-> invalidServers]

\* the entries of the list whose id is the id of no valid entry
invalidOf(servers, validServers) ==
    SelectSeq(servers, LAMBDA e : ~\E k \in DOMAIN validServers :
                                      entryServerId(validServers[k]) = entryServerId(e))

\* importFromURL after the decoding: [out, path, preview]; out is "ok" or the
\* reason the handler's catch block took over
checkShared(d, sharedBundle, servers, validServers) ==
    IF ~d.ok THEN [out |-> "throws", path |-> d.path, preview |-> NoPreview]
    ELSE IF sharedBundle.t = "null"
    THEN [out |-> "throws", path |-> d.path, preview |-> NoPreview]
    ELSE IF ~Truthy(Get(sharedBundle, KeyName)) \/ servers.t # "arr"
    THEN [out |-> "Invalid bundle format", path |-> d.path, preview |-> NoPreview]
    ELSE IF \E i \in DOMAIN servers.v : servers.v[i].t = "null"
    THEN [out |-> "throws", path |-> d.path, preview |-> NoPreview]
    ELSE IF validServers = <<>>
    THEN [out |-> "No valid servers found in shared bundle", path |-> d.path,
          preview |-> NoPreview]
    ELSE [out |-> "ok", path |-> d.path,
          preview |-> previewOf(sharedBundle, validServers,
                                invalidOf(servers.v, validServers))]

\* the entries of the list that find a catalogue server
validOf(servers) ==
    IF servers.t = "arr" /\ \A i \in DOMAIN servers.v : servers.v[i].t # "null"
    THEN SelectSeq(servers.v, LAMBDA e : findServer(entryServerId(e)) # 0)
    ELSE <<>>

resolveShared(d, servers) == checkShared(d, d.v, servers, validOf(servers))

validateShared(d) == resolveShared(d, Get(d.v, KeyServers))

\* importFromURL(encodedData) up to its assignments
importResult(encodedData) == validateShared(decodeShared(encodedData))

------------------------------------------------------------------------------
(* oembed.php: the bundle name and server count it reads from a share link *)

\* lines 25-54, from $encodedData on: [path, name, servers]; NULL where the
\* default title or description is kept
oembedDecode(encodedData) ==
    LET standardBase64 == FromUrlSafe(encodedData)
        paddedBase64 == standardBase64
            \o [i \in 1..((4 - (Len(standardBase64) % 4)) % 4) |-> 61]
        binaryString == base64_decode(paddedBase64)
        n == Len(binaryString)
    IN  IF n >= 5
        THEN LET nameLength == binaryString[1]
                 bundleName == SubSeq(binaryString, 6, 5 + nameLength)
             IN  IF n < 5 + nameLength
                 THEN [path |-> "binary", name |-> NULL, servers |-> NULL]
                 ELSE IF bundleName = <<>> \/ bundleName = <<48>>
                 THEN [path |-> "binary", name |-> bundleName, servers |-> NULL]
                 ELSE [path |-> "binary", name |-> bundleName,
                       servers |-> (n - 5 - nameLength) \div 4]
        ELSE LET json == JSONparse(base64_decode(encodedData))
                 name == Get(json.v, KeyName)
                 servers == Get(json.v, KeyServers)
             IN  IF json.ok /\ name.t \notin {"undefined", "null"}
                 THEN [path |-> "json", name |-> name,
                       servers |-> IF servers.t = "arr" THEN Len(servers.v) ELSE NULL]
                 ELSE [path |-> "json", name |-> NULL, servers |-> NULL]

------------------------------------------------------------------------------
(* Helpers over the bundle list *)

\* items.findIndex(b => b.id === bundleId); 0 stands for -1
FindIndex(items, bundleId) ==
    IF \E i \in DOMAIN items : items[i].id = bundleId
    THEN CHOOSE i \in DOMAIN items :
            /\ items[i].id = bundleId
            /\ \A j \in DOMAIN items : items[j].id = bundleId => i <= j
    ELSE 0

\* bundle.servers.findIndex(s => s.serverId === serverId); 0 stands for -1
ServerIndex(bundle, serverId) ==
    IF \E i \in DOMAIN bundle.servers : bundle.servers[i].serverId = serverId
    THEN CHOOSE i \in DOMAIN bundle.servers :
            /\ bundle.servers[i].serverId = serverId
            /\ \A j \in DOMAIN bundle.servers :
                  bundle.servers[j].serverId = serverId => i <= j
    ELSE 0

\* serverExists looking only for a servers list: C5_AttachNeedsServerInBundle
\* tells them apart
serverExists_anyList(bundle, serverId) == "servers" \in DOMAIN bundle

\* attachConnection's bundle.servers.some(...) (entries are objects)
serverExists(bundle, serverId) ==
    \E i \in DOMAIN bundle.servers : bundle.servers[i].serverId = serverId

\* bundle.serverConnections[serverId] is set (connection ids are non-empty strings)
HasMapping(bundle, serverId) == serverId \in DOMAIN bundle.serverConnections

RemoveAt(seq, i) == [j \in 1..(Len(seq) - 1) |-> IF j < i THEN seq[j] ELSE seq[j + 1]]

RemoveKey(f, k) == [x \in (DOMAIN f) \ {k} |-> f[x]]

\* the delay of debouncedSave, in milliseconds (the clock counts milliseconds)
Delay == 500

\* debouncedSave leaving a pending timer as it is
scheduled_keep(timeouts, key, time) ==
    [k \in DOMAIN timeouts \cup {key} |->
        IF k \in DOMAIN timeouts THEN timeouts[k] ELSE time + Delay]

\* debouncedSave with one timer for all keys
scheduled_single(timeouts, key, time) == [k \in {key} |-> time + Delay]

\* saveTimeouts after debouncedSave(key, data) at the given time: the pending
\* timer of the key is cleared and a new one is due one delay later
scheduled(timeouts, key, time) ==
    [k \in DOMAIN timeouts \cup {key} |-> IF k = key THEN time + Delay ELSE timeouts[k]]

\* debouncedSave(key, data).  The data is the store's array or object itself,
\* which the timer's callback reads when it runs
debouncedSave(key) == saveTimeouts' = scheduled(saveTimeouts, key, now)

\* localStorage after storage.set(key, value)
storage_set(storage, key, value) ==
    [k \in DOMAIN storage \cup {key} |-> IF k = key THEN value ELSE storage[k]]

\* bundles.save()
bundles_save == debouncedSave(STORAGE_KEYS.bundles)

AppUnchanged == UNCHANGED <<importPreview, currentView, codec, synth, cache,
                            view, database, credentialsStore>>

------------------------------------------------------------------------------
(* Alpine.store('bundles') *)

\* the bundle object create() builds at clock reading time
NewBundle(name, description, time) ==
    [id |-> ToString(time), name |-> Trim(name), description |-> description,
     servers |-> <<>>, serverConnections |-> <<>>,
     created |-> time, updated |-> time]

\* create(name, description) while the list holds fewer than limit bundles
bundles_createUpTo(name, limit) ==
    /\ Len(bundles) < limit
    /\ bundles' = Append(bundles, NewBundle(name, <<>>, now))
    /\ bundles_save
    /\ last' = [NoOp EXCEPT !.op = "create", !.b = ToString(now)]
    /\ UNCHANGED <<connections, nextConn, now, localStorage>>
    /\ AppUnchanged

bundles_create(name) == bundles_createUpTo(name, MaxBundles)

\* update(bundleId, updates); the app's editBundle passes { name, description }
bundles_update(bundleId, name) ==
    LET index == FindIndex(bundles, bundleId) IN
    /\ IF index = 0
       THEN /\ last' = [NoOp EXCEPT !.op = "update", !.out = "null", !.b = bundleId]
            /\ UNCHANGED <<bundles, saveTimeouts>>
       ELSE /\ bundles' = [bundles EXCEPT ![index].name = name,
                                          ![index].description = <<>>,
                                          ![index].updated = now]
            /\ bundles_save
            /\ last' = [NoOp EXCEPT !.op = "update", !.b = bundleId]
    /\ UNCHANGED <<connections, nextConn, now, localStorage>>
    /\ AppUnchanged

\* importAll that assigns the list and leaves it unsaved:
\* C34_PersistedFollowsMemory tells them apart
importAll_unsaved(timeouts, time) == timeouts

\* the timers after importAll's this.save()
importAll_save(timeouts, time) == scheduled(timeouts, STORAGE_KEYS.bundles, time)

\* bundles.importAll(data): throws unless data.bundles is a list; else the
\* list becomes this.items and is saved
bundles_importAll(data) ==
    /\ IF "bundles" \notin DOMAIN data
       THEN /\ last' = [NoOp EXCEPT !.op = "importAll", !.out = "Invalid import data"]
            /\ UNCHANGED <<bundles, saveTimeouts>>
       ELSE /\ bundles' = data.bundles
            /\ saveTimeouts' = importAll_save(saveTimeouts, now)
            /\ last' = [NoOp EXCEPT !.op = "importAll"]
    /\ UNCHANGED <<connections, nextConn, now, localStorage>>
    /\ AppUnchanged

bundles_delete(bundleId) ==
    LET index == FindIndex(bundles, bundleId) IN
    /\ IF index = 0
       THEN /\ last' = [NoOp EXCEPT !.op = "delete", !.out = "false", !.b = bundleId]
            /\ UNCHANGED <<bundles, saveTimeouts>>
       ELSE /\ bundles' = RemoveAt(bundles, index)
            /\ bundles_save
            /\ last' = [NoOp EXCEPT !.op = "delete", !.b = bundleId]
    /\ UNCHANGED <<connections, nextConn, now, localStorage>>
    /\ AppUnchanged

\* existing without the search: C2_ServerIdsAreDistinct tells them apart
existing_never(bundle, serverId) == FALSE

\* addServer's bundle.servers.find(...) found an entry (entries are objects)
existing(bundle, serverId) ==
    \E i \in DOMAIN bundle.servers : bundle.servers[i].serverId = serverId

\* AddServerTo refreshing `updated` also when the server is present:
\* C3_AddPresentServerIsNoOp tells them apart
AddServerTo_touch(items, bundleId, serverId, packageIndex, time) ==
    LET index == FindIndex(items, bundleId)
        bundle == items[index]
    IN  IF existing(bundle, serverId)
        THEN [items EXCEPT ![index].updated = time]
        ELSE [items EXCEPT
                ![index].servers = Append(bundle.servers,
                    [serverId |-> serverId, packageIndex |-> packageIndex,
                     connectionId |-> NULL]),
                ![index].updated = time]

\* the bundle list after addServer(bundleId, serverId, packageIndex) on a
\* bundle that exists: a new entry is pushed unless one has the serverId
AddServerTo(items, bundleId, serverId, packageIndex, time) ==
    LET index == FindIndex(items, bundleId)
        bundle == items[index]
    IN  IF existing(bundle, serverId)
        THEN items
        ELSE [items EXCEPT
                ![index].servers = Append(bundle.servers,
                    [serverId |-> serverId, packageIndex |-> packageIndex,
                     connectionId |-> NULL]),
                ![index].updated = time]

bundles_addServer(bundleId, serverId, packageIndex) ==
    LET index == FindIndex(bundles, bundleId)
        args == [NoOp EXCEPT !.op = "addServer", !.b = bundleId, !.s = serverId,
                             !.p = packageIndex]
        items == AddServerTo(bundles, bundleId, serverId, packageIndex, now)
    IN
    /\ IF index = 0
       THEN /\ last' = [args EXCEPT !.out = "Bundle not found"]
            /\ UNCHANGED <<bundles, saveTimeouts>>
       ELSE IF existing(bundles[index], serverId)
       THEN /\ bundles' = items
            /\ last' = [args EXCEPT !.out = "present"]
            /\ UNCHANGED saveTimeouts
       ELSE /\ bundles' = items
            /\ bundles_save
            /\ last' = args
    /\ UNCHANGED <<connections, nextConn, now, localStorage>>
    /\ AppUnchanged

bundles_removeServer(bundleId, serverId) ==
    LET index == FindIndex(bundles, bundleId)
        args == [NoOp EXCEPT !.op = "removeServer", !.b = bundleId, !.s = serverId]
    IN
    /\ IF index = 0
       THEN /\ last' = [args EXCEPT !.out = "Bundle not found"]
            /\ UNCHANGED <<bundles, saveTimeouts>>
       ELSE LET bundle == bundles[index]
                i == ServerIndex(bundle, serverId)
            IN  IF i = 0
                THEN /\ last' = [args EXCEPT !.out = "absent"]
                     /\ UNCHANGED <<bundles, saveTimeouts>>
                ELSE /\ bundles' = [bundles EXCEPT
                            ![index].servers = RemoveAt(bundle.servers, i),
                            ![index].serverConnections =
                                IF HasMapping(bundle, serverId)
                                THEN RemoveKey(bundle.serverConnections, serverId)
                                ELSE bundle.serverConnections,
                            ![index].updated = now]
                     /\ bundles_save
                     /\ last' = args
    /\ UNCHANGED <<connections, nextConn, now, localStorage>>
    /\ AppUnchanged

bundles_attachConnection(bundleId, serverId, connectionId) ==
    LET index == FindIndex(bundles, bundleId)
        args == [NoOp EXCEPT !.op = "attachConnection", !.b = bundleId,
                             !.s = serverId, !.c = connectionId]
    IN
    /\ IF index = 0
       THEN /\ last' = [args EXCEPT !.out = "Bundle not found"]
            /\ UNCHANGED <<bundles, saveTimeouts>>
       ELSE IF ~serverExists(bundles[index], serverId)
       THEN /\ last' = [args EXCEPT !.out = "Server not in bundle"]
            /\ UNCHANGED <<bundles, saveTimeouts>>
       ELSE /\ bundles' = [bundles EXCEPT
                  ![index].serverConnections =
                      [k \in (DOMAIN bundles[index].serverConnections) \cup {serverId} |->
                          IF k = serverId THEN connectionId
                          ELSE bundles[index].serverConnections[k]],
                  ![index].updated = now]
            /\ bundles_save
            /\ last' = args
    /\ UNCHANGED <<connections, nextConn, now, localStorage>>
    /\ AppUnchanged

bundles_detachConnection(bundleId, serverId) ==
    LET index == FindIndex(bundles, bundleId)
        args == [NoOp EXCEPT !.op = "detachConnection", !.b = bundleId, !.s = serverId]
    IN
    /\ IF index = 0
       THEN /\ last' = [args EXCEPT !.out = "Bundle not found"]
            /\ UNCHANGED <<bundles, saveTimeouts>>
       ELSE IF ~HasMapping(bundles[index], serverId)
       THEN /\ last' = [args EXCEPT !.out = "absent"]
            /\ UNCHANGED <<bundles, saveTimeouts>>
       ELSE /\ bundles' = [bundles EXCEPT
                  ![index].serverConnections =
                      RemoveKey(bundles[index].serverConnections, serverId),
                  ![index].updated = now]
            /\ bundles_save
            /\ last' = args
    /\ UNCHANGED <<connections, nextConn, now, localStorage>>
    /\ AppUnchanged

\* connections.get(connectionId): the connection, or undefined
connections_get(conns, connectionId) ==
    IF \E i \in DOMAIN conns : conns[i].id = connectionId
    THEN conns[CHOOSE i \in DOMAIN conns :
                  /\ conns[i].id = connectionId
                  /\ \A j \in DOMAIN conns : conns[j].id = connectionId => i <= j]
    ELSE UNDEFINED

\* bundles.getServerConnection(bundleId, serverId), a pure lookup
getServerConnection(items, conns, bundleId, serverId) ==
    LET index == FindIndex(items, bundleId) IN
    IF index = 0 THEN JsNull
    ELSE IF ~HasMapping(items[index], serverId) THEN JsNull
    ELSE connections_get(conns, items[index].serverConnections[serverId])

------------------------------------------------------------------------------
(* Alpine.store('connections') *)

\* connections.save(): storage.set at once, without a timer
connections_save ==
    localStorage' = storage_set(localStorage, STORAGE_KEYS.connections,
                           [connections |-> connections', version |-> "1.0.0",
                            updated |-> now])

\* create(connectionData): the id is 'conn_' + Date.now() + '_' + a random
\* suffix; ids are modelled as never repeating; the credentials default to
\* {}; of a connection's fields the model keeps id, credentials and updated.
\* save() writes at once
connections_create ==
    /\ nextConn < MaxConnections
    /\ nextConn' = nextConn + 1
    /\ connections' = Append(connections, [id |-> nextConn + 1, credentials |-> <<>>,
                                         updated |-> now])
    /\ connections_save
    /\ last' = [NoOp EXCEPT !.op = "connections.create", !.c = nextConn + 1]
    /\ UNCHANGED <<bundles, now, saveTimeouts>>
    /\ AppUnchanged

\* bundles.some(bundle => bundle.connections && bundle.connections.includes(id)):
\* no bundle has a `connections` field (create writes serverConnections)
isUsed(items, connectionId) ==
    \E i \in DOMAIN items :
        /\ "connections" \in DOMAIN items[i]
        /\ \E k \in DOMAIN items[i].connections : items[i].connections[k] = connectionId

connections_delete(connectionId) ==
    LET index == IF \E i \in DOMAIN connections : connections[i].id = connectionId
                 THEN CHOOSE i \in DOMAIN connections :
                         /\ connections[i].id = connectionId
                         /\ \A j \in DOMAIN connections :
                               connections[j].id = connectionId => i <= j
                 ELSE 0
        args == [NoOp EXCEPT !.op = "connections.delete", !.c = connectionId]
    IN
    /\ IF index = 0
       THEN /\ last' = [args EXCEPT !.out = "Connection not found"]
            /\ UNCHANGED <<connections, localStorage>>
       ELSE IF isUsed(bundles, connectionId)
       THEN /\ last' = [args EXCEPT !.out = "Cannot delete connection - it is used in one or more bundles"]
            /\ UNCHANGED <<connections, localStorage>>
       ELSE /\ connections' = RemoveAt(connections, index)
            /\ connections_save
            /\ last' = args
    /\ UNCHANGED <<bundles, nextConn, now, saveTimeouts>>
    /\ AppUnchanged

\* items.findIndex(c => c.id === connectionId); 0 stands for none
ConnectionIndex(conns, connectionId) ==
    IF \E i \in DOMAIN conns : conns[i].id = connectionId
    THEN CHOOSE i \in DOMAIN conns :
            /\ conns[i].id = connectionId
            /\ \A j \in DOMAIN conns : conns[j].id = connectionId => i <= j
    ELSE 0

\* update(connectionId, updates); the app's updateConnection passes the
\* credentials of the edit form
connections_update(connectionId, credentials) ==
    LET index == ConnectionIndex(connections, connectionId)
        args == [NoOp EXCEPT !.op = "connections.update", !.c = connectionId]
    IN
    /\ IF index = 0
       THEN /\ last' = [args EXCEPT !.out = "Connection not found"]
            /\ UNCHANGED <<connections, localStorage>>
       ELSE /\ connections' = [connections EXCEPT ![index].credentials = credentials,
                                                  ![index].updated = now]
            /\ connections_save
            /\ last' = args
    /\ UNCHANGED <<bundles, nextConn, now, saveTimeouts>>
    /\ AppUnchanged

\* setCredential(connectionId, secretName, value)
connections_setCredential(connectionId, secretName, value) ==
    LET index == ConnectionIndex(connections, connectionId)
        args == [NoOp EXCEPT !.op = "connections.setCredential", !.c = connectionId,
                             !.p = [name |-> secretName, value |-> value]]
    IN
    /\ IF index = 0
       THEN /\ last' = [args EXCEPT !.out = "Connection not found"]
            /\ UNCHANGED <<connections, localStorage>>
       ELSE /\ connections' =
                  [connections EXCEPT
                      ![index].credentials =
                          [k \in DOMAIN connections[index].credentials \cup {secretName} |->
                              IF k = secretName THEN value
                              ELSE connections[index].credentials[k]],
                      ![index].updated = now]
            /\ connections_save
            /\ last' = args
    /\ UNCHANGED <<bundles, nextConn, now, saveTimeouts>>
    /\ AppUnchanged

\* connection.credentials && connection.credentials[secretName]
held(credentials, secretName) ==
    /\ secretName \in DOMAIN credentials
    /\ Truthy(credentials[secretName])

\* removeCredential(connectionId, secretName)
connections_removeCredential(connectionId, secretName) ==
    LET index == ConnectionIndex(connections, connectionId)
        args == [NoOp EXCEPT !.op = "connections.removeCredential", !.c = connectionId,
                             !.p = [name |-> secretName]]
    IN
    /\ IF index = 0
       THEN /\ last' = [args EXCEPT !.out = "Connection not found"]
            /\ UNCHANGED <<connections, localStorage>>
       ELSE IF held(connections[index].credentials, secretName)
       THEN /\ connections' =
                  [connections EXCEPT
                      ![index].credentials =
                          RemoveKey(connections[index].credentials, secretName),
                      ![index].updated = now]
            /\ connections_save
            /\ last' = args
       ELSE /\ last' = args
            /\ UNCHANGED <<connections, localStorage>>
    /\ UNCHANGED <<bundles, nextConn, now, saveTimeouts>>
    /\ AppUnchanged

------------------------------------------------------------------------------
(* Alpine.store('cache') *)

\* the 24 hours of cache.get, in milliseconds
Day == 24 * 60 * 60 * 1000

CacheUnchanged == UNCHANGED <<bundles, connections, nextConn, now, localStorage,
                              importPreview, currentView, codec, synth,
                              view, database, credentialsStore>>

\* set(key, data, maxAge = null): <<>> stands for a null maxAge, <<ms>> for a
\* number of milliseconds
cache_set(key, data, maxAge) ==
    /\ cache' = [k \in DOMAIN cache \cup {key} |->
                    IF k = key THEN [data |-> data, timestamp |-> now, maxAge |-> maxAge]
                    ELSE cache[k]]
    /\ debouncedSave(STORAGE_KEYS.cache)
    /\ last' = [NoOp EXCEPT !.op = "cache.set", !.path = key]
    /\ CacheUnchanged

\* the maxAge cache.get compares the age with
expiry(cached) == Day

\* get(key): null for a missing key; for an entry older than the expiry,
\* remove(key) (delete and save) and null; else the entry's data
cache_get(key) ==
    /\ IF key \notin DOMAIN cache
       THEN /\ last' = [NoOp EXCEPT !.op = "cache.get", !.path = key, !.out = NULL]
            /\ UNCHANGED <<cache, saveTimeouts>>
       ELSE IF now - cache[key].timestamp > expiry(cache[key])
       THEN /\ cache' = RemoveKey(cache, key)
            /\ debouncedSave(STORAGE_KEYS.cache)
            /\ last' = [NoOp EXCEPT !.op = "cache.get", !.path = key, !.out = NULL]
       ELSE /\ last' = [NoOp EXCEPT !.op = "cache.get", !.path = key,
                                    !.out = cache[key].data]
            /\ UNCHANGED <<cache, saveTimeouts>>
    /\ CacheUnchanged

------------------------------------------------------------------------------
(* Timers and clock *)

\* the array or object a store hands to debouncedSave under a key
dataOf(key) == IF key = STORAGE_KEYS.bundles THEN bundles ELSE cache

\* the timer of debouncedSave fires when it is due:
\* storage.set(key, data); delete saveTimeouts[key]
saveTimerFires(key) ==
    /\ key \in DOMAIN saveTimeouts
    /\ saveTimeouts[key] = now
    /\ localStorage' = storage_set(localStorage, key, dataOf(key))
    /\ saveTimeouts' = RemoveKey(saveTimeouts, key)
    /\ last' = [NoOp EXCEPT !.op = "saveTimerFires", !.path = key]
    /\ UNCHANGED <<bundles, connections, nextConn, now>>
    /\ AppUnchanged

\* the clock advances by d milliseconds, up to a limit; a timer that is due
\* fires before the clock passes it
elapse(d, limit) ==
    /\ now + d <= limit
    /\ \A key \in DOMAIN saveTimeouts : saveTimeouts[key] >= now + d
    /\ now' = now + d
    /\ last' = [NoOp EXCEPT !.op = "tick"]
    /\ UNCHANGED <<bundles, connections, nextConn, saveTimeouts, localStorage>>
    /\ AppUnchanged

tick ==
    /\ now < MaxTime
    /\ now' = now + 1
    /\ last' = [NoOp EXCEPT !.op = "tick"]
    /\ UNCHANGED <<bundles, connections, nextConn, saveTimeouts, localStorage>>
    /\ AppUnchanged

------------------------------------------------------------------------------
(* The app component's handlers *)

\* removeServerFromBundle(serverId, bundleId): the entry is filtered out;
\* bundle.serverConnections is left as it was
removeServerFromBundle(serverId, bundleId) ==
    LET index == FindIndex(bundles, bundleId)
        args == [NoOp EXCEPT !.op = "removeServerFromBundle", !.b = bundleId,
                             !.s = serverId]
    IN
    /\ IF index = 0
       THEN /\ last' = [args EXCEPT !.out = "return"]
            /\ UNCHANGED <<bundles, saveTimeouts>>
       ELSE /\ bundles' = [bundles EXCEPT
                  ![index].servers = SelectSeq(bundles[index].servers,
                                               LAMBDA e : e.serverId # serverId),
                  ![index].updated = now]
            /\ bundles_save
            /\ last' = args
    /\ UNCHANGED <<connections, nextConn, now, localStorage>>
    /\ AppUnchanged

\* clearAllData(), confirmed by the user; of the stores it clears the model
\* has the bundles and the cache (not the credentials and the settings)
clearAllData ==
    /\ bundles' = <<>>
    /\ cache' = <<>>
    /\ saveTimeouts' = scheduled(scheduled(saveTimeouts, STORAGE_KEYS.bundles, now),
                                 STORAGE_KEYS.cache, now)
    /\ currentView' = "catalogue"
    /\ last' = [NoOp EXCEPT !.op = "clearAllData"]
    /\ UNCHANGED <<connections, nextConn, now, localStorage, importPreview, codec, synth,
                   view, database, credentialsStore>>

\* JSON.stringify of a string without characters to escape
Quote(text) == <<34>> \o text \o <<34>>

\* JSON.stringify of a list of such strings
StringifyList(texts) ==
    <<91>> \o Flatten([i \in DOMAIN texts |->
                         (IF i = 1 THEN <<>> ELSE <<44>>) \o Quote(texts[i])])
           \o <<93>>

\* the legacy shareBundle: btoa(JSON.stringify({ name, description, servers,
\* metadata: { shared } })), servers being full ids, shared the ISO date of
\* clock reading 0
legacyShare(name, servers) ==
    btoa(<<123>> \o Quote(KeyName) \o <<58>> \o Quote(name) \o <<44>>
         \o Quote(KeyDescription) \o <<58>> \o Quote(<<>>) \o <<44>>
         \o Quote(KeyServers) \o <<58>> \o StringifyList(servers) \o <<44>>
         \o Quote(<<109, 101, 116, 97, 100, 97, 116, 97>>) \o <<58>>
         \o <<123>> \o Quote(<<115, 104, 97, 114, 101, 100>>) \o <<58>> \o Quote(<<49, 57, 55, 48, 45, 48, 49, 45, 48, 49, 84, 48, 48, 58, 48, 48, 58, 
      48, 48, 46, 48, 48, 48, 90>>) \o <<125>>
         \o <<125>>)

OldBundle == <<79, 108, 100, 32, 66, 117, 110, 100, 108, 101>>
Zzz == <<122, 122, 122>>

\* the share links the app is opened with (what follows #/): legacy JSON
\* payloads, links made by shareBundle, and payloads that are neither
ShareTokens ==
    << legacyShare(OldBundle, <<IdText("abc123"), Zzz, IdText("abc123")>>),
       legacyShare(OldBundle, <<Zzz>>),
       legacyShare(OldBundle, <<>>),
       shareToken([name |-> <<68, 101, 118>>,
                   servers |-> <<[serverId |-> "1a2b3c4d-e5f6"],
                                 [serverId |-> "abc123"]>>], 0),
       shareToken([name |-> <<68, 101, 118>>,
                   servers |-> <<[serverId |-> "abc123"]>>], 0),
       shareToken([name |-> <<>>,
                   servers |-> <<[serverId |-> "1a2b3c4d-e5f6"]>>], 0),
       btoa(<<123, 34, 115, 101, 114, 118, 101, 114, 115, 34, 58, 91, 34, 97, 98, 
      99, 49, 50, 51, 34, 93, 125>>),
       btoa(<<123, 34, 110, 97, 109, 101, 34, 58, 34, 68, 101, 118, 34, 44, 34, 
      115, 101, 114, 118, 101, 114, 115, 34, 58, 34, 97, 98, 99, 49, 50, 
      51, 34, 125>>),
       btoa(<<110, 117, 108, 108>>),
       btoa(<<1, 2, 3>>),
       <<33, 33>> >>

\* what importFromURL makes of each link
ImportResults == [k \in DOMAIN ShareTokens |-> importResult(ShareTokens[k])]

\* importOutcome leaving the preview on a rejection:
\* C10_RejectedImportChangesNothing tells them apart
importOutcome_reset(tok, r) ==
    /\ IF r.out = "ok"
       THEN /\ importPreview' = r.preview
            /\ currentView' = "import-preview"
       ELSE /\ importPreview' = NoPreview
            /\ currentView' = "catalogue"
    /\ last' = [NoOp EXCEPT !.op = "importFromURL", !.out = r.out, !.tok = tok,
                            !.path = r.path]
    /\ UNCHANGED <<bundles, connections, nextConn, now, saveTimeouts, cache, localStorage,
                   codec, synth, view, database, credentialsStore>>

\* importFromURL's assignments, r being what it made of link number tok
importOutcome(tok, r) ==
    /\ IF r.out = "ok"
       THEN /\ importPreview' = r.preview
            /\ currentView' = "import-preview"
       ELSE UNCHANGED <<importPreview, currentView>>
    /\ last' = [NoOp EXCEPT !.op = "importFromURL", !.out = r.out, !.tok = tok,
                            !.path = r.path]
    /\ UNCHANGED <<bundles, connections, nextConn, now, saveTimeouts, cache, localStorage,
                   codec, synth, view, database, credentialsStore>>

\* importFromURL(encodedData) with the link number tok
importFromURL(tok) == importOutcome(tok, ImportResults[tok])

\* the bundle list after confirmImport's forEach over the preview's servers,
\* from entry i on; each entry is a catalogue object, so the id is entry.id
\* and packageIndex is undefined (addServer's default 0)
RECURSIVE AddServers(_, _, _, _, _)
AddServers(items, bundleId, servers, i, time) ==
    IF i > Len(servers) THEN items
    ELSE AddServers(AddServerTo(items, bundleId, servers[i], 0, time),
                    bundleId, servers, i + 1, time)

\* confirmImport(): create, then addServer per preview entry; a throw of
\* create (name or description without trim) is caught and changes nothing;
\* it runs while the list holds fewer than limit bundles
confirmImportUpTo(limit) ==
    /\ importPreview.t # "null"
    /\ Len(bundles) < limit
    /\ LET name == importPreview.name
           description == importPreview.description
           created == Append(bundles,
               NewBundle(name.v, IF description.t = "str" THEN description.v ELSE <<>>, now))
       IN  IF name.t # "str" \/ description.t \notin {"str", "undefined"}
           THEN /\ last' = [NoOp EXCEPT !.op = "confirmImport", !.out = "throws"]
                /\ UNCHANGED <<bundles, saveTimeouts, importPreview, currentView>>
           ELSE /\ bundles' = AddServers(created, ToString(now), importPreview.servers, 1, now)
                /\ bundles_save
                /\ currentView' = "bundles"
                /\ importPreview' = NoPreview
                /\ last' = [NoOp EXCEPT !.op = "confirmImport", !.b = ToString(now),
                                        !.p = Len(importPreview.servers)]
    /\ UNCHANGED <<connections, nextConn, now, cache, localStorage, codec, synth,
                   view, database, credentialsStore>>

confirmImport == confirmImportUpTo(MaxBundles)

------------------------------------------------------------------------------
(* SpecCodec: the share codec applied to drawn inputs *)

Run(c, k) == [i \in 1..k |-> c]

\* k times the surrogate pair of U+1F600
Pairs(k) == Flatten([i \in 1..k |-> <<55357, 56832>>])

\* names by length in code units and in UTF-8 bytes: around the 50 code units
\* packBundle keeps and around 255 bytes, in 1-, 2-, 3- and 4-byte characters
CodecNames ==
    { <<68, 101, 118>>, <<>>, <<55357>>,
      Run(65, 50), Run(65, 51), Run(65, 255), Run(65, 256),
      Run(233, 127) \o <<65>>, Run(233, 128),
      Run(8364, 50), Run(8364, 85), Run(8364, 85) \o <<65>>,
      Pairs(25), <<65>> \o Pairs(25), Pairs(64) }

\* the lists of at most MaxServers server entries
ServerLists ==
    UNION { [1..n -> {[serverId |-> id] : id \in ServerIds}] : n \in 0..MaxServers }

CodecBundles ==
    {[name |-> n, servers |-> <<>>] : n \in CodecNames}
    \cup {[name |-> n, servers |-> <<[serverId |-> "1a2b3c4d-e5f6"]>>] : n \in CodecNames}
    \cup {[name |-> <<68, 101, 118>>, servers |-> l] : l \in ServerLists}

\* "abc": the start of a catalogue id, but no id
Abc == <<97, 98, 99>>

\* bundles of the legacy format: servers are full ids, as texts
LegacyIdTexts == {IdText(id) : id \in CatalogueIds} \cup {Zzz, Abc}

LegacyBundles ==
    {[name |-> OldBundle, servers |-> l] :
        l \in UNION { [1..n -> LegacyIdTexts] : n \in 0..MaxServers }}

\* readings of Date.now() at the time of sharing
ClockReadings == {0, 999, 1000, 2147483647}

\* {"name":"Old Bundle","servers":[null,"abc123"]}
NullEntryJson ==
    <<123, 34, 110, 97, 109, 101, 34, 58, 34, 79, 108, 100, 32, 66, 117, 110, 100,
      108, 101, 34, 44, 34, 115, 101, 114, 118, 101, 114, 115, 34, 58, 91, 110, 117,
      108, 108, 44, 34, 97, 98, 99, 49, 50, 51, 34, 93, 125>>

\* {"name":"Old Bundle","servers":[{"serverId":"abc123"},"zzz",5,{"serverId":1},"abc123"]}
MixedEntriesJson ==
    <<123, 34, 110, 97, 109, 101, 34, 58, 34, 79, 108, 100, 32, 66, 117, 110, 100,
      108, 101, 34, 44, 34, 115, 101, 114, 118, 101, 114, 115, 34, 58, 91, 123, 34,
      115, 101, 114, 118, 101, 114, 73, 100, 34, 58, 34, 97, 98, 99, 49, 50, 51, 34,
      125, 44, 34, 122, 122, 122, 34, 44, 53, 44, 123, 34, 115, 101, 114, 118, 101,
      114, 73, 100, 34, 58, 49, 125, 44, 34, 97, 98, 99, 49, 50, 51, 34, 93, 125>>

\* payloads that are JSON, binary, both or neither, on both sides of 5 bytes
CodecLinks ==
    {ShareTokens[k] : k \in DOMAIN ShareTokens}
    \cup { legacyShare(OldBundle, <<Zzz, IdText("1a2b3c4d-e5f6")>>),
           btoa(<<49, 50, 51, 52, 53>>), btoa(<<49, 50, 51, 52>>), btoa(<<123, 125>>),
           btoa(<<0, 0, 0, 0, 0>>), btoa(<<1, 2, 3, 4>>),
           btoa(<<1, 0, 0, 0, 0, 65, 18, 52, 86, 120, 1>>), <<>>,
           btoa(NullEntryJson), btoa(MixedEntriesJson) }

\* shareBundle(bundle): packBundle, btoa, URL-safe; a throw is caught
shareBundle ==
    /\ codec.stage = "bundle"
    /\ LET packedData == packBundle(codec.bundle, codec.ms) IN
       codec' = [codec EXCEPT !.stage = "shared", !.packed = packedData,
                              !.token = IF packedData.ok
                                        THEN ToUrlSafe(btoa(packedData.bytes))
                                        ELSE <<>>]
    /\ UNCHANGED <<bundles, connections, nextConn, now, saveTimeouts, cache, localStorage,
                   importPreview, currentView, last, synth,
                   view, database, credentialsStore>>

\* the legacy shareBundle
legacyShareBundle ==
    /\ codec.stage = "legacy"
    /\ codec' = [codec EXCEPT !.stage = "legacy link",
                              !.token = legacyShare(codec.bundle.name, codec.bundle.servers)]
    /\ UNCHANGED <<bundles, connections, nextConn, now, saveTimeouts, cache, localStorage,
                   importPreview, currentView, last, synth,
                   view, database, credentialsStore>>

\* unpackBundle applied to what packBundle returned
unpack ==
    /\ codec.stage = "shared"
    /\ codec.packed.ok
    /\ codec' = [codec EXCEPT !.stage = "unpacked",
                              !.result = unpackBundle(codec.packed.bytes)]
    /\ UNCHANGED <<bundles, connections, nextConn, now, saveTimeouts, cache, localStorage,
                   importPreview, currentView, last, synth,
                   view, database, credentialsStore>>

\* the app's importFromURL reads the link
decodeApp ==
    /\ \/ codec.stage \in {"link", "legacy link"}
       \/ codec.stage = "shared" /\ codec.packed.ok
    /\ codec' = [codec EXCEPT !.stage = IF codec.stage = "legacy link"
                                        THEN "legacy imported" ELSE "imported",
                              !.result = importResult(codec.token)]
    /\ UNCHANGED <<bundles, connections, nextConn, now, saveTimeouts, cache, localStorage,
                   importPreview, currentView, last, synth,
                   view, database, credentialsStore>>

\* oembed.php reads the link
decodeOembed ==
    /\ \/ codec.stage \in {"link", "legacy link"}
       \/ codec.stage = "shared" /\ codec.packed.ok
    /\ codec' = [codec EXCEPT !.stage = "oembed",
                              !.result = oembedDecode(codec.token)]
    /\ UNCHANGED <<bundles, connections, nextConn, now, saveTimeouts, cache, localStorage,
                   importPreview, currentView, last, synth,
                   view, database, credentialsStore>>

------------------------------------------------------------------------------
(* The catalogue view, the database and the credentials store as constructed *)

\* the component's data: the list shown, the package selected for each
\* server, the search box and its debounce timer; with them the loads in
\* flight (those awaiting the database and those the microtask queue holds,
\* in its order), how many loads were issued and what the last one asked for
NoView == [servers |-> <<>>, selectedPackageIndex |-> <<>>,
           searchQuery |-> <<>>, searchDebounceTimeout |-> FALSE,
           waiting |-> <<>>, microtasks |-> <<>>, issued |-> 0, latest |-> <<>>]

\* new MCPDatabase(): no handle, not ready, no initPromise; with them how
\* many times the file was loaded, the error a failed load threw and the
\* calls that await the load
NewDatabase == [db |-> NULL, dbReady |-> FALSE, initPromise |-> NULL,
                loads |-> 0, error |-> NULL, callers |-> <<>>]

\* the database once init() has loaded the file
Opened == [NewDatabase EXCEPT !.db = "open", !.dbReady = TRUE,
                              !.initPromise = "resolved", !.loads = 1]

\* Alpine.store('credentials') as declared: no data, locked; with them the
\* calls of unlock and save that await crypto
NewCredentials == [data |-> JsNull, isUnlocked |-> FALSE, crypto |-> <<>>]

------------------------------------------------------------------------------
(* Alpine.store('credentials'), the passphrase-protected store *)

MaxCrypto == 2

CredentialsUnchanged == UNCHANGED <<bundles, connections, nextConn, now, saveTimeouts, cache,
                                    importPreview, currentView, codec, synth, view,
                                    database>>

\* passphrases: two of eight characters and one too short to encrypt with
Passphrase == <<112, 97, 115, 115, 119, 111, 114, 100>>
Passphrasf == <<112, 97, 115, 115, 119, 111, 114, 102>>
Pw == <<112, 119>>

\* {} and the objects that map server ids to what is kept for them
NoCredentials == [t |-> "obj", v |-> <<>>]

\* crypto.encrypt(data, passphrase): it throws for a passphrase of fewer than
\* 8 characters; what it returns can be decrypted with the same passphrase
\* only
encrypt(data, passphrase) ==
    IF Len(passphrase) < 8
    THEN [ok |-> FALSE, error |-> "Passphrase must be at least 8 characters long"]
    ELSE [ok |-> TRUE, v |-> [t |-> "encrypted", data |-> data, passphrase |-> passphrase]]

\* crypto.decrypt(encryptedPackage, passphrase): it throws without a
\* passphrase and when the key derived from it does not decrypt the data
decrypt(encryptedPackage, passphrase) ==
    IF passphrase = <<>> THEN [ok |-> FALSE, error |-> "Passphrase is required"]
    ELSE IF encryptedPackage.passphrase # passphrase
    THEN [ok |-> FALSE, error |-> "OperationError"]
    ELSE [ok |-> TRUE, v |-> encryptedPackage.data]

\* set(serverId, credential) that never refuses:
\* C38_LockedStoreGivesNothing tells them apart
set_always(isUnlocked) == FALSE

\* set(serverId, credential): if (!this.isUnlocked) throw
set_refused(isUnlocked) == ~isUnlocked

\* get(serverId): this.isUnlocked && this.data ? this.data[serverId] : null
credentials_get(serverId) ==
    /\ last' = [NoOp EXCEPT
                   !.op = "credentials.get", !.s = serverId,
                   !.p = IF credentialsStore.isUnlocked /\ credentialsStore.data.t = "obj"
                         THEN IF serverId \in DOMAIN credentialsStore.data.v
                              THEN credentialsStore.data.v[serverId]
                              ELSE UNDEFINED
                         ELSE JsNull]
    /\ UNCHANGED <<credentialsStore, localStorage>>
    /\ CredentialsUnchanged

\* set(serverId, credential)
credentials_set(serverId, credential) ==
    /\ IF set_refused(credentialsStore.isUnlocked)
       THEN /\ last' = [NoOp EXCEPT !.op = "credentials.set", !.s = serverId,
                                    !.out = "Credentials are locked"]
            /\ UNCHANGED credentialsStore
       ELSE /\ credentialsStore' =
                  [credentialsStore EXCEPT
                      !.data = LET data == IF @.t = "obj" THEN @ ELSE NoCredentials IN
                               [data EXCEPT !.v = storage_set(@, serverId, credential)]]
            /\ last' = [NoOp EXCEPT !.op = "credentials.set", !.s = serverId]
    /\ UNCHANGED localStorage
    /\ CredentialsUnchanged

\* remove(serverId)
credentials_remove(serverId) ==
    /\ IF credentialsStore.isUnlocked /\ credentialsStore.data.t = "obj"
       THEN /\ credentialsStore' = [credentialsStore EXCEPT !.data.v = RemoveKey(@, serverId)]
            /\ last' = [NoOp EXCEPT !.op = "credentials.remove", !.s = serverId,
                                    !.out = "true"]
       ELSE /\ last' = [NoOp EXCEPT !.op = "credentials.remove", !.s = serverId,
                                    !.out = "false"]
            /\ UNCHANGED credentialsStore
    /\ UNCHANGED localStorage
    /\ CredentialsUnchanged

\* lock()
credentials_lock ==
    /\ credentialsStore' = [credentialsStore EXCEPT !.data = JsNull, !.isUnlocked = FALSE]
    /\ last' = [NoOp EXCEPT !.op = "credentials.lock"]
    /\ UNCHANGED localStorage
    /\ CredentialsUnchanged

\* clear()
credentials_clear ==
    /\ credentialsStore' = [credentialsStore EXCEPT !.data = NoCredentials,
                                                    !.isUnlocked = FALSE]
    /\ localStorage' = RemoveKey(localStorage, STORAGE_KEYS.credentials)
    /\ last' = [NoOp EXCEPT !.op = "credentials.clear"]
    /\ CredentialsUnchanged

\* unlock(passphrase) up to its await: with nothing stored the store is
\* unlocked and empty; else decrypt is at work on what is stored
credentials_unlock(passphrase) ==
    /\ IF STORAGE_KEYS.credentials \notin DOMAIN localStorage
       THEN /\ credentialsStore' = [credentialsStore EXCEPT !.data = NoCredentials,
                                                           !.isUnlocked = TRUE]
            /\ last' = [NoOp EXCEPT !.op = "credentials.unlock", !.out = "resolved"]
       ELSE /\ Len(credentialsStore.crypto) < MaxCrypto
            /\ credentialsStore' =
                  [credentialsStore EXCEPT
                      !.crypto = Append(@, [op |-> "unlock",
                                            result |-> decrypt(
                                                localStorage[STORAGE_KEYS.credentials],
                                                passphrase)])]
            /\ last' = [NoOp EXCEPT !.op = "credentials.unlock", !.out = "pending"]
    /\ UNCHANGED localStorage
    /\ CredentialsUnchanged

\* save(credentials, passphrase) up to its await: the credentials are the
\* store's data, locked or not, and encrypt is at work on them
credentials_save(credentials, passphrase) ==
    /\ Len(credentialsStore.crypto) < MaxCrypto
    /\ credentialsStore' =
          [credentialsStore EXCEPT
              !.data = credentials,
              !.crypto = Append(@, [op |-> "save",
                                    result |-> encrypt(credentials, passphrase)])]
    /\ last' = [NoOp EXCEPT !.op = "credentials.save", !.out = "pending"]
    /\ UNCHANGED localStorage
    /\ CredentialsUnchanged

\* the work of crypto for call number i of those awaiting it ends. unlock
\* goes on: the decrypted data is the store's and the store is unlocked, or
\* the catch block throws 'Invalid passphrase'. save goes on: what encrypt
\* returned is stored, or its error is thrown again
cryptoSettles(i) ==
    LET call == credentialsStore.crypto[i]
        rest == [credentialsStore EXCEPT !.crypto = RemoveAt(@, i)]
    IN
    /\ i \in DOMAIN credentialsStore.crypto
    /\ IF call.op = "unlock"
       THEN /\ UNCHANGED localStorage
            /\ IF call.result.ok
               THEN /\ credentialsStore' = [rest EXCEPT !.data = call.result.v,
                                                       !.isUnlocked = TRUE]
                    /\ last' = [NoOp EXCEPT !.op = "unlock settles", !.out = "resolved"]
               ELSE /\ credentialsStore' = rest
                    /\ last' = [NoOp EXCEPT !.op = "unlock settles",
                                            !.out = "Invalid passphrase"]
       ELSE /\ credentialsStore' = rest
            /\ IF call.result.ok
               THEN /\ localStorage' = storage_set(localStorage, STORAGE_KEYS.credentials,
                                                   call.result.v)
                    /\ last' = [NoOp EXCEPT !.op = "save settles", !.out = "resolved"]
               ELSE /\ UNCHANGED localStorage
                    /\ last' = [NoOp EXCEPT !.op = "save settles",
                                            !.out = call.result.error]
    /\ CredentialsUnchanged

------------------------------------------------------------------------------
(* MCPDatabase: init, ensureReady, a query, close, and the end of the load *)

MaxCallers == 3

DatabaseUnchanged == UNCHANGED <<bundles, connections, nextConn, now, saveTimeouts, cache,
                                 localStorage, importPreview, currentView, codec, synth,
                                 credentialsStore>>

\* the errors a load can throw: the fetch fails, or its response is not ok
LoadErrors == {"TypeError: Failed to fetch", "Failed to load database: 404"}

\* init() that never finds a promise: C37_OneLoadForAllCallers tells them apart
init_always(initPromise) == FALSE

\* init(): if (this.initPromise) return this.initPromise
init_memo(initPromise) == initPromise # NULL

\* the database once init() has returned: the promise there was, or the
\* promise of a new _initInternal(), which returns at once when the
\* database is ready and starts a load when it is not
Inited(d) ==
    IF init_memo(d.initPromise) THEN d
    ELSE IF d.dbReady THEN [d EXCEPT !.initPromise = "resolved"]
    ELSE [d EXCEPT !.initPromise = "pending", !.loads = @ + 1]

\* a call that awaits init(): it waits for a pending load, and else settles
\* as the promise has; call is the name it waits under
awaitInit(call, settled) ==
    LET d == Inited(database) IN
    IF d.initPromise = "pending"
    THEN /\ Len(d.callers) < MaxCallers
         /\ database' = [d EXCEPT !.callers = Append(@, call)]
         /\ last' = [NoOp EXCEPT !.op = call, !.out = "pending"]
    ELSE /\ database' = d
         /\ last' = [NoOp EXCEPT !.op = call,
                                 !.out = IF d.initPromise = "rejected" THEN d.error
                                         ELSE settled]

\* await database.init()
database_init ==
    /\ view.microtasks = <<>>
    /\ awaitInit("init", "resolved")
    /\ UNCHANGED view
    /\ DatabaseUnchanged

\* await database.ensureReady(): if (!this.dbReady) await this.init()
database_ensureReady ==
    /\ view.microtasks = <<>>
    /\ IF database.dbReady
       THEN /\ last' = [NoOp EXCEPT !.op = "ensureReady", !.out = "resolved"]
            /\ UNCHANGED database
       ELSE awaitInit("ensureReady", "resolved")
    /\ UNCHANGED view
    /\ DatabaseUnchanged

\* what this.db.exec(query) does after ensureReady() has resolved
exec(db) == IF db = NULL THEN "TypeError" ELSE "rows"

\* await database.getServers(): await this.ensureReady(), then
\* this.db.exec(query)
database_getServers ==
    /\ view.microtasks = <<>>
    /\ IF database.dbReady
       THEN /\ last' = [NoOp EXCEPT !.op = "getServers", !.out = exec(database.db)]
            /\ UNCHANGED database
       ELSE awaitInit("getServers", exec(database.db))
    /\ UNCHANGED view
    /\ DatabaseUnchanged

\* close()
database_close ==
    /\ view.microtasks = <<>>
    /\ IF database.db # NULL
       THEN database' = [database EXCEPT !.db = NULL, !.dbReady = FALSE]
       ELSE UNCHANGED database
    /\ last' = [NoOp EXCEPT !.op = "close"]
    /\ UNCHANGED view
    /\ DatabaseUnchanged

\* the load of _initInternal ends well: the handle is there, the database
\* is ready, the promise resolves, and every call awaiting it goes on with
\* the loads of the view that awaited it, in the order they began to wait
loadSucceeds ==
    /\ view.microtasks = <<>>
    /\ database.initPromise = "pending"
    /\ database' = [database EXCEPT !.db = "open", !.dbReady = TRUE,
                                    !.initPromise = "resolved", !.callers = <<>>]
    /\ view' = [view EXCEPT !.waiting = <<>>, !.microtasks = view.waiting]
    /\ last' = [NoOp EXCEPT !.op = "loadSucceeds", !.out = "resolved",
                            !.p = database.callers]
    /\ DatabaseUnchanged

\* the load of _initInternal throws: the promise is rejected with the error,
\* so is every call awaiting it, and every load of the view that awaited it
\* ends in its catch block, which for loadServers empties the list
loadFails(error) ==
    /\ view.microtasks = <<>>
    /\ database.initPromise = "pending"
    /\ database' = [database EXCEPT !.initPromise = "rejected", !.error = error,
                                    !.callers = <<>>]
    /\ view' = [view EXCEPT !.waiting = <<>>,
                            !.servers = IF \E i \in DOMAIN view.waiting :
                                              view.waiting[i].kind = "loadServers"
                                        THEN <<>> ELSE @]
    /\ last' = [NoOp EXCEPT !.op = "loadFails", !.out = error, !.p = database.callers]
    /\ DatabaseUnchanged

------------------------------------------------------------------------------
(* The catalogue view: loading servers and adding one to a bundle *)

ViewUnchanged == UNCHANGED <<connections, nextConn, now, cache, localStorage,
                             importPreview, currentView, codec, synth,
                             credentialsStore>>

\* packages.findIndex(p => p.registry_name === registry) as a position, 0 for -1
RegistryIndex(packages, registry) ==
    IF \E i \in DOMAIN packages : packages[i].registry_name = registry
    THEN CHOOSE i \in DOMAIN packages :
            /\ packages[i].registry_name = registry
            /\ \A j \in DOMAIN packages : packages[j].registry_name = registry => i <= j
    ELSE 0

\* serverUtils.selectDefaultPackage(packages): the index (from 0) of the
\* first npm package, else of the first docker one, else of the first pypi
\* one, else 0
selectDefaultPackage(packages) ==
    IF RegistryIndex(packages, "npm") # 0 THEN RegistryIndex(packages, "npm") - 1
    ELSE IF RegistryIndex(packages, "docker") # 0 THEN RegistryIndex(packages, "docker") - 1
    ELSE IF RegistryIndex(packages, "pypi") # 0 THEN RegistryIndex(packages, "pypi") - 1
    ELSE 0

\* the catalogue as transformServersFromDB returns it: a server with a pypi
\* and an npm package, and one with an npm package
ViewServers ==
    <<[id |-> Catalogue[1], packages |-> <<[registry_name |-> "pypi"],
                                           [registry_name |-> "npm"]>>],
      [id |-> Catalogue[2], packages |-> <<[registry_name |-> "npm"]>>]>>

\* loadServers() from database.init() to the end with no other handler in
\* between, the database file holding the servers given: the database is
\* open, this.servers is that list and every server's selected package is
\* its default one
loadServersFrom(servers) ==
    /\ database' = Opened
    /\ view' = [view EXCEPT
                   !.servers = servers,
                   !.selectedPackageIndex =
                       [id \in {servers[i].id : i \in DOMAIN servers} |->
                           selectDefaultPackage(
                               servers[CHOOSE i \in DOMAIN servers :
                                          servers[i].id = id].packages)]]
    /\ last' = [NoOp EXCEPT !.op = "loadServers"]
    /\ UNCHANGED <<bundles, saveTimeouts>>
    /\ ViewUnchanged

loadServers == loadServersFrom(ViewServers)

\* this.selectedPackageIndex[server.id] || 0
selectedIndex(selected, serverId) ==
    IF serverId \in DOMAIN selected THEN selected[serverId] ELSE 0

\* the package index of the entry addServerToBundle(bundleId, server) makes.
\* The component's object literal defines the method twice and the second
\* definition is the one in force: bundles.addServer(bundleId, server.id),
\* packageIndex being addServer's default
addServerToBundle_index(selected, serverId) == 0

\* addServerToBundle(bundleId, server), server being one of this.servers; a
\* throw of addServer is caught and shown as a toast
addServerToBundle(bundleId, server) ==
    LET index == FindIndex(bundles, bundleId)
        args == [NoOp EXCEPT !.op = "addServerToBundle", !.b = bundleId, !.s = server.id]
    IN
    /\ IF index = 0
       THEN /\ last' = [args EXCEPT !.out = "Failed to add server to bundle"]
            /\ UNCHANGED <<bundles, saveTimeouts>>
       ELSE IF existing(bundles[index], server.id)
       THEN /\ last' = [args EXCEPT !.out = "present"]
            /\ UNCHANGED <<bundles, saveTimeouts>>
       ELSE /\ bundles' = AddServerTo(bundles, bundleId, server.id,
                                      addServerToBundle_index(view.selectedPackageIndex,
                                                              server.id),
                                      now)
            /\ bundles_save
            /\ last' = args
    /\ UNCHANGED <<view, database>>
    /\ ViewUnchanged

------------------------------------------------------------------------------
(* The catalogue view: loads of the list by loadServers, performSearch and *)
(* selectCategory                                                          *)

MaxRequests == 3

\* the rows of the servers table: the id, which is the name too, and the
\* category of each server
Rows == <<[id |-> Catalogue[1], category |-> "Dev"],
          [id |-> Catalogue[2], category |-> "Data"]>>

\* the rows database.getServersByCategory(categoryName) returns
getServersByCategory(categoryName) ==
    SelectSeq(Rows, LAMBDA row : row.category = categoryName)

\* the rows database.searchServers(searchQuery) returns: all of them for a
\* blank query, else those whose name begins with the term
searchServers(searchQuery) ==
    IF Trim(searchQuery) = <<>> THEN Rows
    ELSE SelectSeq(Rows, LAMBDA row : StartsWith(IdText(row.id), Trim(searchQuery)))

\* transformServersFromDB(rows): a row of a list carries no package of its
\* own, so each one is replaced by what await database.getServerById(id)
\* returns
transformServersFromDB(rows) ==
    [k \in DOMAIN rows |->
        ViewServers[CHOOSE i \in DOMAIN ViewServers : ViewServers[i].id = rows[k].id]]

\* the selected packages after a load has assigned the list: loadServers
\* sets the default for each server, performSearch for each server that has
\* no (or the first) package selected, selectCategory for none
selectedAfter(selected, servers, kind) ==
    LET ids == {servers[i].id : i \in DOMAIN servers}
        default(id) == selectDefaultPackage(
                           servers[CHOOSE i \in DOMAIN servers : servers[i].id = id].packages)
    IN  IF kind = "selectCategory" THEN selected
        ELSE [id \in DOMAIN selected \cup ids |->
                 IF id \in ids /\ (kind = "loadServers" \/ selectedIndex(selected, id) = 0)
                 THEN default(id)
                 ELSE selected[id]]

\* a handler begins to load the rows given, v being the view as the handler
\* has it by then: the load awaits the query (for loadServers, init() and
\* getCategories before it), then getServerById once for each row, then
\* assigns this.servers. With the database ready it is alone in the
\* microtask queue; while the file is loading it waits for it; with a
\* rejected promise, or a closed database, it ends in the catch block
issue(v, kind, rows, before) ==
    LET request == [n |-> v.issued + 1, kind |-> kind,
                    servers |-> transformServersFromDB(rows),
                    awaits |-> before + Len(rows)]
        d == IF database.dbReady /\ kind # "loadServers" THEN database
             ELSE Inited(database)
        w == [v EXCEPT !.issued = @ + 1, !.latest = request.servers]
    IN
    /\ v.issued < MaxRequests
    /\ database' = d
    /\ IF d.dbReady
       THEN /\ view' = [w EXCEPT !.microtasks = <<request>>]
            /\ last' = [NoOp EXCEPT !.op = kind, !.c = request.n]
       ELSE IF d.initPromise = "pending"
       THEN /\ view' = [w EXCEPT !.waiting = Append(@, request)]
            /\ last' = [NoOp EXCEPT !.op = kind, !.c = request.n, !.out = "pending"]
       ELSE /\ view' = [w EXCEPT !.servers = IF kind = "loadServers" THEN <<>> ELSE @]
            /\ last' = [NoOp EXCEPT !.op = kind, !.c = request.n, !.out = "failed"]
    /\ DatabaseUnchanged

\* loadServers(), handler by handler
loadServersBegins ==
    /\ view.microtasks = <<>>
    /\ issue(view, "loadServers", Rows, 1)

\* selectCategory(categoryName)
selectCategory(categoryName) ==
    /\ view.microtasks = <<>>
    /\ issue(view, "selectCategory",
             IF categoryName = "All Servers" THEN Rows
             ELSE getServersByCategory(categoryName), 0)

\* performSearch(), the search box holding the query: the timer is set anew
performSearch(searchQuery) ==
    /\ view.microtasks = <<>>
    /\ view' = [view EXCEPT !.searchQuery = searchQuery, !.searchDebounceTimeout = TRUE]
    /\ last' = [NoOp EXCEPT !.op = "performSearch", !.out = "timer"]
    /\ UNCHANGED database
    /\ DatabaseUnchanged

\* the timer of performSearch fires
searchTimerFires ==
    /\ view.microtasks = <<>>
    /\ view.searchDebounceTimeout
    /\ issue([view EXCEPT !.searchDebounceTimeout = FALSE], "performSearch",
             searchServers(view.searchQuery), 0)

\* the microtask queue's first load goes on to its next await, behind the
\* others in the queue, or, having none left, assigns this.servers
microtask ==
    /\ view.microtasks # <<>>
    /\ LET request == Head(view.microtasks) IN
       IF request.awaits > 0
       THEN /\ view' = [view EXCEPT !.microtasks =
                           Append(Tail(@), [request EXCEPT !.awaits = @ - 1])]
            /\ last' = [NoOp EXCEPT !.op = "microtask", !.c = request.n, !.out = "await"]
       ELSE /\ view' = [view EXCEPT
                           !.microtasks = Tail(@),
                           !.servers = request.servers,
                           !.selectedPackageIndex =
                               selectedAfter(@, request.servers, request.kind)]
            /\ last' = [NoOp EXCEPT !.op = "microtask", !.c = request.n]
    /\ UNCHANGED database
    /\ DatabaseUnchanged

------------------------------------------------------------------------------
(* importFromURL over the list the view has loaded *)

\* this.servers.find(s => s.id === serverId || s.id.startsWith(serverId))
\* over the servers given: the index of the first such server, 0 for undefined
findServerIn(servers, serverId) ==
    LET Match(i) == StartsWith(IdText(servers[i].id), ToStringJs(serverId)) IN
    IF \E i \in DOMAIN servers : Match(i)
    THEN CHOOSE i \in DOMAIN servers : Match(i) /\ \A j \in DOMAIN servers : Match(j) => i <= j
    ELSE 0

\* importFromURL after the decoding of a link of the legacy format, d being
\* what decodeShared made of it and this.servers the list the view has
\* loaded: the entries that find a server are valid, and the preview holds
\* the server each of them finds
importLegacy(d) ==
    LET servers == Get(d.v, KeyServers)
        validServers == SelectSeq(servers.v, LAMBDA e :
                            findServerIn(view.servers, entryServerId(e)) # 0)
        args == [NoOp EXCEPT !.op = "importLegacy",
                             !.p = [k \in DOMAIN validServers |->
                                       ToStringJs(entryServerId(validServers[k]))]]
    IN
    /\ d.ok /\ d.path = "json" /\ servers.t = "arr"
    /\ IF validServers = <<>>
       THEN /\ last' = [args EXCEPT !.out = "No valid servers found in shared bundle"]
            /\ UNCHANGED <<importPreview, currentView>>
       ELSE /\ importPreview' =
                  [t |-> "obj",
                   name |-> Get(d.v, KeyName),
                   description |-> Get(d.v, KeyDescription),
                   servers |-> [k \in DOMAIN validServers |->
                                   view.servers[findServerIn(view.servers,
                                       entryServerId(validServers[k]))].id],
                   invalidServers |-> invalidOf(servers.v, validServers)]
            /\ currentView' = "import-preview"
            /\ last' = args
    /\ UNCHANGED <<bundles, connections, nextConn, now, saveTimeouts, cache, localStorage,
                   codec, synth, view, database, credentialsStore>>


------------------------------------------------------------------------------

Init ==
    /\ bundles = <<>>
    /\ connections = <<>>
    /\ nextConn = 0
    /\ now = 0
    /\ saveTimeouts = <<>>
    /\ cache = <<>>
    /\ localStorage = <<>>
    /\ importPreview = NoPreview
    /\ currentView = "catalogue"
    /\ last = NoOp
    /\ view = NoView
    /\ database = NewDatabase
    /\ credentialsStore = NewCredentials
    /\ codec = NoCodec
    /\ synth = NoSynth

\* the stores' operations with every argument, and the handlers that write
\* to the stores directly.  The connection attached is one of the list (the
\* app offers those)
NextStore ==
    \/ \E name \in BundleNames : bundles_create(name)
    \/ \E bundleId \in BundleIds, name \in BundleNames : bundles_update(bundleId, name)
    \/ \E bundleId \in BundleIds : bundles_delete(bundleId)
    \/ \E bundleId \in BundleIds, serverId \in CatalogueIds, packageIndex \in PackageIndexes :
          bundles_addServer(bundleId, serverId, packageIndex)
    \/ \E bundleId \in BundleIds, serverId \in CatalogueIds :
          bundles_removeServer(bundleId, serverId)
    \/ \E bundleId \in BundleIds, serverId \in CatalogueIds, i \in DOMAIN connections :
          bundles_attachConnection(bundleId, serverId, connections[i].id)
    \/ \E bundleId \in BundleIds, serverId \in CatalogueIds :
          bundles_detachConnection(bundleId, serverId)
    \/ connections_create
    \/ \E connectionId \in ConnectionIds : connections_delete(connectionId)
    \/ \E bundleId \in BundleIds, serverId \in CatalogueIds :
          removeServerFromBundle(serverId, bundleId)
    \/ clearAllData
    \/ tick

SpecStore == Init /\ [][NextStore]_vars

\* the app: its handlers reach addServer with the default packageIndex
Next ==
    \/ \E name \in BundleNames : bundles_create(name)
    \/ \E bundleId \in BundleIds, name \in BundleNames : bundles_update(bundleId, name)
    \/ \E bundleId \in BundleIds : bundles_delete(bundleId)
    \/ \E bundleId \in BundleIds, serverId \in CatalogueIds :
          bundles_addServer(bundleId, serverId, 0)
    \/ \E bundleId \in BundleIds, serverId \in CatalogueIds :
          bundles_removeServer(bundleId, serverId)
    \/ \E bundleId \in BundleIds, serverId \in CatalogueIds, i \in DOMAIN connections :
          bundles_attachConnection(bundleId, serverId, connections[i].id)
    \/ \E bundleId \in BundleIds, serverId \in CatalogueIds :
          bundles_detachConnection(bundleId, serverId)
    \/ connections_create
    \/ \E connectionId \in ConnectionIds : connections_delete(connectionId)
    \/ \E bundleId \in BundleIds, serverId \in CatalogueIds :
          removeServerFromBundle(serverId, bundleId)
    \/ clearAllData
    \/ \E tok \in DOMAIN ShareTokens : importFromURL(tok)
    \/ confirmImport
    \/ tick

Spec == Init /\ [][Next]_vars

InitCodec ==
    /\ bundles = <<>>
    /\ connections = <<>>
    /\ nextConn = 0
    /\ now = 0
    /\ saveTimeouts = <<>>
    /\ cache = <<>>
    /\ localStorage = <<>>
    /\ importPreview = NoPreview
    /\ currentView = "catalogue"
    /\ last = NoOp
    /\ view = NoView
    /\ database = NewDatabase
    /\ credentialsStore = NewCredentials
    /\ synth = NoSynth
    /\ \/ \E bundle \in CodecBundles, ms \in ClockReadings :
             codec = [NoCodec EXCEPT !.stage = "bundle", !.bundle = bundle, !.ms = ms]
       \/ \E bundle \in LegacyBundles :
             codec = [NoCodec EXCEPT !.stage = "legacy", !.bundle = bundle]
       \/ \E token \in CodecLinks :
             codec = [NoCodec EXCEPT !.stage = "link", !.token = token]

NextCodec ==
    \/ shareBundle
    \/ legacyShareBundle
    \/ unpack
    \/ decodeApp
    \/ decodeOembed

SpecCodec == InitCodec /\ [][NextCodec]_vars

------------------------------------------------------------------------------
(* serverUtils.js: the launcher configuration synthesized from a package.     *)
(* Texts are sequences of code units; the texts drawn are ASCII.  A package,  *)
(* an environment variable and an argument are records of JavaScript values.  *)

\* 'remote'
Remote == <<114, 101, 109, 111, 116, 101>>

\* 'docker'
Docker == <<100, 111, 99, 107, 101, 114>>

\* 'npm'
Npm == <<110, 112, 109>>

\* 'pypi'
Pypi == <<112, 121, 112, 105>>

\* 'nuget'
Nuget == <<110, 117, 103, 101, 116>>

\* 'npx'
Npx == <<110, 112, 120>>

\* 'uvx'
Uvx == <<117, 118, 120>>

\* 'dnx'
Dnx == <<100, 110, 120>>

\* 'http'
Http == <<104, 116, 116, 112>>

\* 'positional'
Positional == <<112, 111, 115, 105, 116, 105, 111, 110, 97, 108>>

\* 'named'
Named == <<110, 97, 109, 101, 100>>

\* 'url'
UrlType == <<117, 114, 108>>

\* 'header'
HeaderType == <<104, 101, 97, 100, 101, 114>>

\* 'endpoint'
Endpoint == <<101, 110, 100, 112, 111, 105, 110, 116>>

\* 'type'
TypeName == <<116, 121, 112, 101>>

\* 'https://example.com/mcp'
FallbackUrl == <<104, 116, 116, 112, 115, 58, 47, 47, 101, 120, 97, 109, 112, 108, 101, 46, 99, 111, 109, 47, 109, 99, 112>>

\* 'https://api.githubcopilot.com/mcp/'
GithubUrl == <<104, 116, 116, 112, 115, 58, 47, 47, 97, 112, 105, 46, 103, 105, 116, 104, 117, 98, 99, 111, 112, 105, 108, 111, 116, 46, 99, 111, 109, 47, 109, 99, 112, 47>>

\* 'github'
Github == <<103, 105, 116, 104, 117, 98>>

\* 'Authorization'
Authorization == <<65, 117, 116, 104, 111, 114, 105, 122, 97, 116, 105, 111, 110>>

\* 'Bearer '
Bearer == <<66, 101, 97, 114, 101, 114, 32>>

\* 'YOUR_'
YOUR_ == <<89, 79, 85, 82, 95>>

\* 'API_KEY'
API_KEY == <<65, 80, 73, 95, 75, 69, 89>>

\* 'TOKEN'
TOKEN == <<84, 79, 75, 69, 78>>

\* 'KEY'
KEY == <<75, 69, 89>>

\* 'run'
RunWord == <<114, 117, 110>>

\* '-i'
DashI == <<45, 105>>

\* '--rm'
DashRm == <<45, 45, 114, 109>>

\* '-e'
DashE == <<45, 101>>

\* 'KEY', 'TOKEN', 'SECRET', 'PASSWORD', 'PASS', 'PWD', 'AUTH', 'CREDENTIAL',
\* 'API', 'PRIVATE', 'ACCESS'
secretPatterns ==
    << <<75, 69, 89>>,
       <<84, 79, 75, 69, 78>>,
       <<83, 69, 67, 82, 69, 84>>,
       <<80, 65, 83, 83, 87, 79, 82, 68>>,
       <<80, 65, 83, 83>>,
       <<80, 87, 68>>,
       <<65, 85, 84, 72>>,
       <<67, 82, 69, 68, 69, 78, 84, 73, 65, 76>>,
       <<65, 80, 73>>,
       <<80, 82, 73, 86, 65, 84, 69>>,
       <<65, 67, 67, 69, 83, 83>> >>


\* String.prototype.toUpperCase and toLowerCase, on ASCII
ToUpperCase(text) ==
    [i \in DOMAIN text |-> IF text[i] >= 97 /\ text[i] <= 122 THEN text[i] - 32 ELSE text[i]]

ToLowerCase(text) ==
    [i \in DOMAIN text |-> IF text[i] >= 65 /\ text[i] <= 90 THEN text[i] + 32 ELSE text[i]]

\* String.prototype.includes
Includes(text, part) ==
    \E i \in 0..(Len(text) - Len(part)) : SubSeq(text, i + 1, i + Len(part)) = part

\* String.prototype.replace(part, by): the first occurrence
Replace(text, part, by) ==
    IF ~Includes(text, part) THEN text
    ELSE LET i == CHOOSE i \in 0..(Len(text) - Len(part)) :
                     /\ SubSeq(text, i + 1, i + Len(part)) = part
                     /\ \A j \in 0..(i - 1) : SubSeq(text, j + 1, j + Len(part)) # part
         IN  SubSeq(text, 1, i) \o by \o SubSeq(text, i + Len(part) + 1, Len(text))

\* `${name}`
Placeholder(name) == <<36, 123>> \o name \o <<125>>

JsTrue == [t |-> "bool", b |-> TRUE]
JsNum(digits) == [t |-> "num", v |-> digits]

\* value === 1
IsOne(value) == value = JsNum(<<49>>)

\* a || b
Or(a, b) == IF Truthy(a) THEN a ELSE b

\* list || [] of a property holding an array or undefined
Items(list) == IF list.t = "arr" THEN list.v ELSE <<>>

\* obj[key] = value
SetKey(obj, key, value) ==
    [k \in DOMAIN obj \cup {key} |-> IF k = key THEN value ELSE obj[k]]

\* isLikelySecret(name)
isLikelySecret(name) ==
    /\ name # <<>>
    /\ \E p \in DOMAIN secretPatterns : Includes(ToUpperCase(name), secretPatterns[p])

\* the flags alone, without the name patterns
isRequiredSecret_flagsOnly(v) == IsOne(v.is_required) /\ IsOne(v.is_secret)

\* the filter of getRequiredSecrets
isRequiredSecret(v) ==
    \/ IsOne(v.is_required) /\ IsOne(v.is_secret)
    \/ isLikelySecret(v.name)

\* getRequiredSecrets(pkg): the names, in declaration order
getRequiredSecrets(pkg) ==
    LET kept == SelectSeq(Items(pkg.environment_variables), isRequiredSecret)
    IN  [i \in DOMAIN kept |-> kept[i].name]

\* the value buildPackageEnv writes for a variable that gets one
envValue(v) ==
    IF Truthy(v.is_required)
    THEN IF Truthy(v.is_secret) THEN JsString(Placeholder(v.name))
         ELSE Or(v.default, JsString(Placeholder(v.name)))
    ELSE v.default

\* buildPackageEnv(envVars): the last variable of a name that writes wins
buildPackageEnv(envVars) ==
    LET vs == Items(envVars)
        Writes(i) == Truthy(vs[i].is_required) \/ Truthy(vs[i].default)
        Last(name) == CHOOSE i \in DOMAIN vs :
                         /\ vs[i].name = name /\ Writes(i)
                         /\ \A j \in DOMAIN vs : (vs[j].name = name /\ Writes(j)) => j <= i
    IN  [name \in {vs[i].name : i \in {j \in DOMAIN vs : Writes(j)}} |-> envValue(vs[Last(name)])]

\* npx for every registry
getDefaultRuntime_npx(registryName) == Npx

\* a default runtime chosen by the time of day
getDefaultRuntime_byClock(registryName) ==
    IF now = 0 THEN Npx ELSE Uvx

\* getDefaultRuntime(registryName)
getDefaultRuntime(registryName) ==
    IF registryName = Npm THEN Npx
    ELSE IF registryName = Pypi THEN Uvx
    ELSE IF registryName = Docker THEN Docker
    ELSE IF registryName = Nuget THEN Dnx
    ELSE Npx

\* an empty table of known services
getKnownRemoteURL_none(packageName) == JsNull

\* getKnownRemoteURL(packageName): the table's entry, or null
getKnownRemoteURL(packageName) ==
    IF packageName = JsString(Github) \/ packageName = JsString(GithubUrl)
    THEN JsString(GithubUrl)
    ELSE JsNull

\* what buildPackageArgs pushes for one stored argument
argWords_pair(arg) ==
    IF arg.type = Named THEN <<arg.name, arg.value>>
    ELSE IF arg.type = Positional THEN <<arg.value>>
    ELSE <<>>

argWords(arg) ==
    IF arg.type = Named
    THEN IF Truthy(arg.value) THEN <<arg.name, arg.value>> ELSE <<arg.name>>
    ELSE IF arg.type = Positional
              /\ arg.value \notin {JsString(RunWord), JsString(DashI),
                                   JsString(DashRm), JsString(DashE)}
    THEN <<arg.value>>
    ELSE <<>>

\* buildPackageArgs(pkg)
buildPackageArgs(pkg) ==
    LET stored == Items(pkg.package_arguments)
        args == Flatten([i \in DOMAIN stored |-> argWords(stored[i])])
        packageName == Or(pkg.package_name, pkg.name)
        named == IF Truthy(packageName) /\ ~\E i \in DOMAIN args : args[i] = packageName
                 THEN Append(args, packageName)
                 ELSE args
    IN  IF named = <<>> THEN <<packageName>> ELSE named


\* .sort((a, b) => a.id - b.id), a stable sort; id 0 stands for a missing id
\* (the difference is then NaN, which sort takes for 0)
SortById(args) ==
    LET Rank(i) == Cardinality({j \in DOMAIN args :
                                   \/ args[j].id < args[i].id
                                   \/ args[j].id = args[i].id /\ j < i}) + 1
    IN  [r \in DOMAIN args |-> args[CHOOSE i \in DOMAIN args : Rank(i) = r]]

\* buildDockerArgs(pkg)
buildDockerArgs(pkg) ==
    LET stored == Items(pkg.package_arguments)
        sorted == SortById(SelectSeq(stored, LAMBDA arg : arg.type = Positional))
        positionalArgs == [i \in DOMAIN sorted |-> sorted[i].value]
        envs == Items(pkg.environment_variables)
        flags == Flatten([i \in DOMAIN envs |->
                            IF Truthy(envs[i].is_required) \/ Truthy(envs[i].is_secret)
                            THEN <<JsString(DashE), JsString(envs[i].name)>>
                            ELSE <<>>])
    IN  IF positionalArgs # <<>> THEN positionalArgs
        ELSE <<JsString(RunWord), JsString(DashI), JsString(DashRm)>>
                \o flags \o <<pkg.package_name>>

\* buildDockerPackageConfig(pkg)
buildDockerPackageConfig(pkg) ==
    [command |-> JsString(Docker),
     args |-> buildDockerArgs(pkg),
     env |-> buildPackageEnv(pkg.environment_variables)]

\* the value buildAuthHeaders stores for a header argument
headerValue(value, envs) ==
    LET Matches(i) ==
            \/ envs[i].name = value.v
            \/ Includes(envs[i].name, Replace(value.v, YOUR_, <<>>))
            \/ Includes(value.v, envs[i].name)
    IN  IF value.t = "str" /\ value.v # <<>>
           /\ (Includes(value.v, YOUR_) \/ Includes(value.v, API_KEY)
               \/ Includes(value.v, TOKEN))
           /\ \E i \in DOMAIN envs : Matches(i)
        THEN JsString(Placeholder(
                 envs[CHOOSE i \in DOMAIN envs :
                         Matches(i) /\ \A j \in DOMAIN envs : Matches(j) => i <= j].name))
        ELSE value

\* the environment variables buildAuthHeaders infers a bearer header from
isBearer(v) ==
    /\ Truthy(v.is_secret)
    /\ v.name # <<>>
    /\ (Includes(ToUpperCase(v.name), TOKEN) \/ Includes(ToUpperCase(v.name), KEY))

\* buildAuthHeaders(envVars, packageArgs)
buildAuthHeaders(envVars, packageArgs) ==
    LET envs == Items(envVars)
        headerArgs == SelectSeq(Items(packageArgs), LAMBDA arg : arg.type = HeaderType)
        LastArg(name) == CHOOSE i \in DOMAIN headerArgs :
                            /\ ToStringJs(headerArgs[i].name) = name
                            /\ \A j \in DOMAIN headerArgs :
                                  ToStringJs(headerArgs[j].name) = name => j <= i
        bearers == SelectSeq(envs, isBearer)
    IN  IF headerArgs # <<>>
        THEN [name \in {ToStringJs(headerArgs[i].name) : i \in DOMAIN headerArgs}
                 |-> headerValue(headerArgs[LastArg(name)].value, envs)]
        ELSE IF bearers # <<>>
        THEN [name \in {Authorization}
                 |-> JsString(Bearer \o Placeholder(bearers[Len(bearers)].name))]
        ELSE <<>>

\* package_arguments?.find(test), or undefined
findArg(packageArgs, Test(_)) ==
    LET stored == Items(packageArgs) IN
    IF \E i \in DOMAIN stored : Test(stored[i])
    THEN stored[CHOOSE i \in DOMAIN stored :
                   Test(stored[i]) /\ \A j \in DOMAIN stored : Test(stored[j]) => i <= j].value
    ELSE UNDEFINED

\* buildRemotePackageConfig(pkg)
buildRemotePackageConfig(pkg) ==
    LET urlArg == findArg(pkg.package_arguments,
                          LAMBDA arg : arg.type = UrlType /\ arg.name = JsString(Endpoint))
        url == Or(urlArg, Or(getKnownRemoteURL(pkg.package_name), JsString(FallbackUrl)))
        type == Or(findArg(pkg.package_arguments, LAMBDA arg : arg.name = JsString(TypeName)),
                   JsString(Http))
        headers == buildAuthHeaders(pkg.environment_variables, pkg.package_arguments)
    IN  IF DOMAIN headers # {}
        THEN [type |-> type, url |-> url, headers |-> headers]
        ELSE [type |-> type, url |-> url]

\* buildPackageConfig(pkg)
buildPackageConfig(pkg) ==
    IF pkg.registry_name = Remote THEN buildRemotePackageConfig(pkg)
    ELSE IF pkg.registry_name = Docker THEN buildDockerPackageConfig(pkg)
    ELSE [command |-> Or(pkg.runtime_hint, JsString(getDefaultRuntime(pkg.registry_name))),
          args |-> buildPackageArgs(pkg),
          env |-> buildPackageEnv(pkg.environment_variables)]

\* getPackageByIndex(server, index): the package, or null
getPackageByIndex(server, index) ==
    IF server.packages = <<>> THEN JsNull
    ELSE IF index + 1 \in DOMAIN server.packages THEN server.packages[index + 1]
    ELSE server.packages[1]


------------------------------------------------------------------------------
(* The app component: the catalogue transform and the export *)

\* transformServersFromDB's mapping of a package: package_name is not copied
\* (reading it gives undefined)
transformPackage(pkg) ==
    [registry_name |-> pkg.registry_name,
     package_name |-> UNDEFINED,
     name |-> Or(pkg.package_name, pkg.name),
     runtime_hint |-> pkg.runtime_hint,
     environment_variables |-> JsArray(Items(pkg.environment_variables)),
     package_arguments |-> JsArray(Items(pkg.package_arguments))]

IsAlnum(u) == (u >= 97 /\ u <= 122) \/ (u >= 48 /\ u <= 57)

\* server.name.toLowerCase().replace(/[^a-z0-9]+/g, '-').replace(/^-+|-+$/g, '')
sanitizedName(name) ==
    LET lower == ToLowerCase(name)
        Inner(i) == /\ \E j \in 1..(i - 1) : IsAlnum(lower[j])
                    /\ \E j \in (i + 1)..Len(lower) : IsAlnum(lower[j])
    IN  Flatten([i \in DOMAIN lower |->
                    IF IsAlnum(lower[i]) THEN <<lower[i]>>
                    ELSE IF Inner(i) /\ IsAlnum(lower[i - 1]) THEN <<45>>
                    ELSE <<>>])

\* every credential copied, blank or not
nonBlank_any(credentials) == DOMAIN credentials

\* the credentials exportClaudeFormat copies: those with a non-blank value
nonBlank(credentials) ==
    {key \in DOMAIN credentials :
        Truthy(credentials[key]) /\ Trim(credentials[key].v) # <<>>}

\* the required secrets exportClaudeFormat gives a placeholder: !serverConfig.env[secret]
unset(env, requiredSecrets) ==
    {requiredSecrets[i] : i \in {j \in DOMAIN requiredSecrets :
                                    \/ requiredSecrets[j] \notin DOMAIN env
                                    \/ ~Truthy(env[requiredSecrets[j]])}}

\* serverConfig.env[k] = values[k] for every k of keys: "throws" where
\* serverConfig.env is undefined and a property of it is written
assignEnv(serverConfig, values, keys, real) ==
    IF keys = {} THEN [out |-> "ok", config |-> serverConfig, real |-> FALSE]
    ELSE IF "env" \notin DOMAIN serverConfig
    THEN [out |-> "throws", config |-> serverConfig, real |-> FALSE]
    ELSE [out |-> "ok", real |-> real,
          config |-> [serverConfig EXCEPT !.env =
                         [k \in DOMAIN serverConfig.env \cup keys |->
                             IF k \in keys THEN values[k] ELSE serverConfig.env[k]]]]

\* serverConfig after the forEach callback's merge, given what
\* getServerConnection returned; without a connection serverConfig.env is
\* read for the first required secret, which throws where it is undefined
mergeCredentials(serverConfig, attachedConnection, requiredSecrets) ==
    IF attachedConnection.t = "obj"
    THEN assignEnv(serverConfig, attachedConnection.credentials,
                   nonBlank(attachedConnection.credentials), TRUE)
    ELSE IF requiredSecrets # <<>> /\ "env" \notin DOMAIN serverConfig
    THEN [out |-> "throws", config |-> serverConfig, real |-> FALSE]
    ELSE IF requiredSecrets = <<>>
    THEN [out |-> "ok", config |-> serverConfig, real |-> FALSE]
    ELSE assignEnv(serverConfig,
                   [k \in {requiredSecrets[i] : i \in DOMAIN requiredSecrets} |->
                       JsString(Placeholder(k))],
                   unset(serverConfig.env, requiredSecrets), FALSE)

\* this.servers.find(s => s.id === serverId): its index, 0 for undefined
findExact(servers, serverId) ==
    IF \E i \in DOMAIN servers : servers[i].id = serverId
    THEN CHOOSE i \in DOMAIN servers :
            servers[i].id = serverId /\ \A j \in DOMAIN servers : servers[j].id = serverId => i <= j
    ELSE 0

\* the connection getServerConnection returns, tagged as the object it is
attachedOf(items, conns, bundle, serverId) ==
    LET c == getServerConnection(items, conns, bundle.id, serverId) IN
    IF "id" \in DOMAIN c THEN [t |-> "obj", id |-> c.id, credentials |-> c.credentials]
    ELSE [t |-> "none"]

\* the config stored for a package and the connection of its entry
configOf(pkg, attachedConnection) ==
    mergeCredentials(buildPackageConfig(pkg), attachedConnection, getRequiredSecrets(pkg))

\* mcpServers[sanitizedName] = serverConfig
keyed(key, merged) ==
    [out |-> merged.out, key |-> key, config |-> merged.config, real |-> merged.real]

\* the forEach callback of exportClaudeFormat once the server was looked up:
\* "skip" where it returns early, else the key and the config it stores
entryOf(servers, index, serverEntry, attachedConnection) ==
    IF index = 0 THEN [out |-> "skip"]
    ELSE IF servers[index].packages = <<>> THEN [out |-> "skip"]
    ELSE keyed(sanitizedName(servers[index].name),
               configOf(getPackageByIndex(servers[index], serverEntry.packageIndex),
                        attachedConnection))

exportEntry(servers, items, conns, bundle, serverEntry) ==
    entryOf(servers, findExact(servers, serverEntry.serverId), serverEntry,
            attachedOf(items, conns, bundle, serverEntry.serverId))

\* the mcpServers object after the forEach, a later entry of a key replacing
\* an earlier one; "throws" when a callback threw
collect(entries) ==
    LET stored == {i \in DOMAIN entries : entries[i].out = "ok"}
        LastOf(key) == CHOOSE i \in stored :
                          entries[i].key = key
                          /\ \A j \in stored : entries[j].key = key => j <= i
    IN  IF \E i \in DOMAIN entries : entries[i].out = "throws"
        THEN [out |-> "throws", mcpServers |-> <<>>, hasRealCredentials |-> FALSE]
        ELSE [out |-> "ok",
              mcpServers |-> [key \in {entries[i].key : i \in stored} |->
                                 entries[LastOf(key)].config],
              hasRealCredentials |-> \E i \in stored : entries[i].real]

\* exportClaudeFormat(bundle) as exportBundle runs it: the mcpServers object
\* handed to downloadFile, or "throws" (exportBundle's catch block shows the
\* toast 'Failed to export bundle' and nothing is downloaded)
exportClaudeFormat(servers, items, conns, bundle) ==
    collect([i \in DOMAIN bundle.servers |->
                exportEntry(servers, items, conns, bundle, bundle.servers[i])])

\* a bundle entry as the JavaScript value it is
AsObject(serverEntry) ==
    [t |-> "obj", serverId |-> serverEntry.serverId,
     packageIndex |-> serverEntry.packageIndex, connectionId |-> serverEntry.connectionId]

\* this.servers.find(s => s.id === value): the index of the first server
\* whose id is strictly equal to the value, 0 when there is none
findStrict(servers, value) ==
    IF \E i \in DOMAIN servers : JsString(servers[i].id) = value
    THEN CHOOSE i \in DOMAIN servers :
            /\ JsString(servers[i].id) = value
            /\ \A j \in DOMAIN servers : JsString(servers[j].id) = value => i <= j
    ELSE 0

\* the map callback of exportCustomFormat once the server was looked up, its
\* parameter being the bundle entry: null when no server was found.  A loaded
\* server has neither config nor requiredSecrets, and serverConnections has
\* no key for an entry object
customEntry(servers, index, serverEntry) ==
    IF index = 0 THEN [out |-> "null"]
    ELSE [out |-> "ok", id |-> AsObject(serverEntry), name |-> servers[index].name,
          config |-> <<>>, credentials |-> <<>>,
          connectionId |-> JsNull, connectionName |-> JsNull]

\* exportCustomFormat(bundle): the bundle object handed to downloadFile
exportCustomFormat(servers, bundle) ==
    [out |-> "ok",
     id |-> bundle.id,
     name |-> bundle.name,
     servers |-> SelectSeq([i \in DOMAIN bundle.servers |->
                              customEntry(servers,
                                          findStrict(servers, AsObject(bundle.servers[i])),
                                          bundle.servers[i])],
                           LAMBDA entry : entry.out = "ok"),
     hasCredentials |-> FALSE]

------------------------------------------------------------------------------
(* SpecExport: a package of the registry is synthesized directly, and, stored *)
(* in the catalogue database and loaded from it, exported with a bundle       *)

Zero == JsNum(<<48>>)
One == JsNum(<<49>>)

\* 'PORT', a name with none of the secret patterns
PORT == <<80, 79, 82, 84>>

\* 'cargo', a registry name getDefaultRuntime does not know
Cargo == <<99, 97, 114, 103, 111>>

Tool == <<64, 111, 114, 103, 47, 116, 111, 111, 108>>
Bunx == <<98, 117, 110, 120>>
SkKey == <<115, 107, 45, 49, 50, 51>>
Blank == <<32, 32>>
Nine == <<57>>
Image == <<105, 109, 103, 58, 49>>
VolumeFlag == <<45, 118>>
PortFlag == <<45, 45, 112, 111, 114, 116>>
Sse == <<115, 115, 101>>
OwnUrl == <<104, 116, 116, 112, 115, 58, 47, 47, 120, 46, 105, 111, 47, 109, 99, 112>>
XKey == <<88, 45, 75, 101, 121>>
YourApiKey == <<89, 79, 85, 82, 95, 65, 80, 73, 95, 75, 69, 89>>

\* the server names of the catalogue: 'io.github/My Server', 'Empty'
ServerName == <<105, 111, 46, 103, 105, 116, 104, 117, 98, 47, 77, 121, 32, 83, 101, 114, 118, 101, 114>>
EmptyName == <<69, 109, 112, 116, 121>>

\* 'io.github/my-server', the name of another server of the catalogue
TwinName == <<105, 111, 46, 103, 105, 116, 104, 117, 98, 47, 109, 121, 45, 115, 101, 114, 118, 101, 114>>

Var(name, required, secret, default) ==
    [name |-> name, is_required |-> required, is_secret |-> secret, default |-> default]

Arg(type, name, value, id) == [type |-> type, name |-> name, value |-> value, id |-> id]

\* environment variables of registry entries: the flags as 0 and 1, a
\* default or none; and the variables of the README's example, flagged true
Vars ==
    {Var(name, required, secret, default) :
        name \in {API_KEY, PORT}, required \in {Zero, One}, secret \in {Zero, One},
        default \in {UNDEFINED, JsString(Abc)}}
    \cup {Var(name, JsTrue, JsTrue, UNDEFINED) : name \in {API_KEY, PORT}}

\* lists of variables with distinct names; a package can have no list
VarLists ==
    {UNDEFINED, JsArray(<<>>)}
    \cup {JsArray(<<v>>) : v \in Vars}
    \cup {JsArray(<<v, w>>) : v \in {x \in Vars : x.name = PORT /\ x.default = UNDEFINED},
                             w \in {x \in Vars : x.name = API_KEY /\ x.is_secret = One
                                                 /\ x.default = UNDEFINED}}

\* stored arguments: positional words, named flags with and without a value,
\* an endpoint with a value and with an empty one, a type, a header
Args(id) ==
    {Arg(Positional, JsNull, JsString(RunWord), id),
     Arg(Positional, JsNull, JsString(Image), id),
     Arg(Named, JsString(PortFlag), JsString(Nine), id),
     Arg(Named, JsString(VolumeFlag), JsNull, id),
     Arg(UrlType, JsString(Endpoint), JsString(OwnUrl), id),
     Arg(UrlType, JsString(Endpoint), JsString(<<>>), id),
     Arg(Named, JsString(TypeName), JsString(Sse), id),
     Arg(Named, JsString(TypeName), JsNull, id),
     Arg(HeaderType, JsString(XKey), JsString(YourApiKey), id),
     Arg(Positional, JsNull, JsString(Tool), id)}

\* lists of arguments: without ids, or with ids against the stored order
ArgLists ==
    {UNDEFINED, JsArray(<<>>)}
    \cup {JsArray(<<a>>) : a \in Args(0)}
    \cup {JsArray(<<Arg(Positional, JsNull, JsString(RunWord), id[1]),
                    Arg(Positional, JsNull, JsString(Image), id[2])>>) :
             id \in {<<0, 0>>, <<2, 1>>}}
    \cup {JsArray(<<Arg(UrlType, JsString(Endpoint), JsString(<<>>), 0),
                    Arg(Named, JsString(TypeName), JsString(Sse), 0)>>)}
    \cup {JsArray(<<Arg(Named, JsString(PortFlag), JsString(Nine), 0),
                    Arg(Positional, JsNull, JsString(Image), 0)>>)}

\* registry kind, package name and runtime hint
Kinds ==
    {<<Remote, Github, JsNull>>, <<Remote, Tool, JsNull>>}
    \cup {<<registry, Tool, hint>> :
             registry \in {Docker, Npm, Pypi, Nuget, Cargo},
             hint \in {JsNull, JsString(Bunx)}}

\* every list of variables with no or an empty list of arguments, and every
\* list of arguments with no variable or a required secret one
Shapes ==
    (VarLists \X {UNDEFINED, JsArray(<<>>)})
    \cup ({JsArray(<<>>), JsArray(<<Var(API_KEY, One, One, UNDEFINED)>>)} \X ArgLists)

\* packages in the registry's format
Packages ==
    {[registry_name |-> kind[1], package_name |-> JsString(kind[2]), name |-> UNDEFINED,
      runtime_hint |-> kind[3], environment_variables |-> shape[1],
      package_arguments |-> shape[2]] :
        kind \in Kinds, shape \in Shapes}

\* a row as getServerPackages reads it from the catalogue database: the flags
\* are 0 or 1, the default is in the column default_value (v.default is
\* undefined), an argument has no id, and both lists are arrays
IsStored(pkg) ==
    /\ pkg.environment_variables.t = "arr"
    /\ pkg.package_arguments.t = "arr"
    /\ \A i \in DOMAIN pkg.environment_variables.v :
          /\ pkg.environment_variables.v[i].is_required \in {Zero, One}
          /\ pkg.environment_variables.v[i].is_secret \in {Zero, One}
          /\ pkg.environment_variables.v[i].default = UNDEFINED
    /\ \A i \in DOMAIN pkg.package_arguments.v : pkg.package_arguments.v[i].id = 0

StoredPackages == {pkg \in Packages : IsStored(pkg)}

\* credentials of a connection: none, a key, a blank value, two keys
Credentials ==
    {<<>>,
     [k \in {API_KEY} |-> JsString(SkKey)],
     [k \in {API_KEY} |-> JsString(Blank)],
     [k \in {API_KEY, PORT} |-> IF k = PORT THEN JsString(Nine) ELSE JsString(<<>>)]}

\* the bundle exported: an entry for a server without packages and one for
\* the server of the drawn package; its connection, when it is mapped to one,
\* is the first created (a mapping can outlive its connection)
ExportedBundle(mapping) ==
    [id |-> "0", name |-> <<68, 101, 118>>, description |-> <<>>,
     servers |-> <<[serverId |-> Catalogue[1], packageIndex |-> 0, connectionId |-> NULL],
                   [serverId |-> Catalogue[2], packageIndex |-> 0, connectionId |-> NULL]>>,
     serverConnections |-> mapping,
     created |-> 0, updated |-> 0]

Attached == [serverId \in {Catalogue[2]} |-> 1]

\* this.servers after loadServers: transformServersFromDB of the rows
loadedServers(pkg) ==
    <<[id |-> Catalogue[1], name |-> EmptyName, packages |-> <<>>],
      [id |-> Catalogue[2], name |-> ServerName, packages |-> <<transformPackage(pkg)>>]>>

\* the package of the server named 'io.github/my-server'
TwinPackage ==
    [registry_name |-> Pypi, package_name |-> JsString(Image), name |-> UNDEFINED,
     runtime_hint |-> JsNull, environment_variables |-> JsArray(<<>>),
     package_arguments |-> JsArray(<<>>)]

\* this.servers when the first server of the catalogue has a package as well
twinServers(pkg) ==
    <<[id |-> Catalogue[1], name |-> TwinName, packages |-> <<transformPackage(TwinPackage)>>],
      [id |-> Catalogue[2], name |-> ServerName, packages |-> <<transformPackage(pkg)>>]>>

NoResult == [out |-> "none"]

Drawn(stage, pkg) ==
    [stage |-> stage, pkg |-> pkg, servers |-> loadedServers(pkg),
     config |-> NoResult, previous |-> NoResult, at |-> <<>>,
     exported |-> NoResult, has |-> NoResult]

StoreUnchanged == UNCHANGED <<bundles, connections, nextConn, now, saveTimeouts,
                              cache, localStorage,
                              importPreview, currentView, codec,
                              view, database, credentialsStore>>

\* serverUtils.buildPackageConfig(pkg), called a first and a second time;
\* synth.at keeps the clock's reading at each call
synthesize ==
    /\ synth.stage \in {"package", "built"}
    /\ synth' = [synth EXCEPT
                    !.stage = IF synth.stage = "package" THEN "built" ELSE "rebuilt",
                    !.previous = synth.config,
                    !.config = buildPackageConfig(synth.pkg),
                    !.at = Append(synth.at, now)]
    /\ last' = [NoOp EXCEPT !.op = "buildPackageConfig"]
    /\ StoreUnchanged

\* the toast exportBundle ends with
toast(result) ==
    IF result.out = "throws" THEN "Failed to export bundle"
    ELSE IF result.hasRealCredentials
    THEN "Claude configuration exported with your credentials"
    ELSE "Claude configuration exported with placeholder variables"

\* exportBundle(bundle) with the launcher format: what exportClaudeFormat
\* downloads, or the error toast of the catch block
exportBundle ==
    /\ synth.stage = "catalogue"
    /\ synth' = [synth EXCEPT
                    !.stage = "exported",
                    !.exported = exportClaudeFormat(synth.servers, bundles, connections,
                                                    bundles[1])]
    /\ last' = [NoOp EXCEPT !.op = "exportBundle", !.out = toast(synth'.exported)]
    /\ StoreUnchanged

\* exportBundleWithFormat(bundle, format) with the self-describing format
exportBundleWithFormat ==
    /\ synth.stage = "catalogue"
    /\ synth' = [synth EXCEPT !.stage = "custom",
                              !.exported = exportCustomFormat(synth.servers, bundles[1])]
    /\ last' = [NoOp EXCEPT !.op = "exportBundleWithFormat",
                            !.out = "Custom bundle exported with placeholder variables"]
    /\ StoreUnchanged

\* any credential entry will do, whatever the package requires
hasRequiredCredentials_any(conns, connectionId, packageData) ==
    /\ connections_get(conns, connectionId) # UNDEFINED
    /\ DOMAIN connections_get(conns, connectionId).credentials # {}

\* connections.hasRequiredCredentials(connectionId, packageData)
hasRequiredCredentials(conns, connectionId, packageData) ==
    LET connection == connections_get(conns, connectionId) IN
    IF connection = UNDEFINED THEN FALSE
    ELSE IF "registry_name" \in DOMAIN packageData
            /\ Truthy(packageData.environment_variables)
    THEN \A i \in DOMAIN packageData.environment_variables.v :
            LET envVar == packageData.environment_variables.v[i] IN
            Truthy(envVar.is_required)
                => /\ envVar.name \in DOMAIN connection.credentials
                   /\ Truthy(connection.credentials[envVar.name])
                   /\ Trim(connection.credentials[envVar.name].v) # <<>>
    ELSE DOMAIN connection.credentials # {}

\* the package data a caller can pass: none, the package, the package
\* without a list of variables
PackageData(pkg) == {JsNull, pkg, [pkg EXCEPT !.environment_variables = UNDEFINED]}

checkCredentials(connectionId, packageData) ==
    /\ synth.stage = "connection"
    /\ synth' = [synth EXCEPT
                    !.stage = "checked",
                    !.has = [out |-> "ok", c |-> connectionId, p |-> packageData,
                             items |-> connections,
                             v |-> hasRequiredCredentials(connections, connectionId, packageData)]]
    /\ last' = [NoOp EXCEPT !.op = "hasRequiredCredentials", !.c = connectionId]
    /\ StoreUnchanged

InitExport ==
    /\ now = 0
    /\ saveTimeouts = <<>>
    /\ cache = <<>>
    /\ localStorage = <<>>
    /\ importPreview = NoPreview
    /\ currentView = "catalogue"
    /\ last = NoOp
    /\ view = NoView
    /\ database = NewDatabase
    /\ credentialsStore = NewCredentials
    /\ codec = NoCodec
    /\ \/ /\ \E pkg \in Packages : synth = Drawn("package", pkg)
          /\ bundles = <<ExportedBundle(<<>>)>>
          /\ connections = <<>>
          /\ nextConn = 0
       \/ /\ \E pkg \in StoredPackages : synth = Drawn("catalogue", pkg)
          /\ \/ /\ connections = <<>>
                /\ bundles = <<ExportedBundle(<<>>)>>
                /\ nextConn = 0
             \/ /\ connections = <<>>
                /\ bundles = <<ExportedBundle(Attached)>>
                /\ nextConn = 1
             \/ /\ \E credentials \in Credentials :
                      connections = <<[id |-> 1, credentials |-> credentials, updated |-> 0]>>
                /\ bundles = <<ExportedBundle(Attached)>>
                /\ nextConn = 1
       \/ /\ \E pkg \in {p \in StoredPackages : p.registry_name = Npm /\ p.runtime_hint = JsNull
                                                /\ p.package_arguments = JsArray(<<>>)} :
                synth = [Drawn("catalogue", pkg) EXCEPT !.servers = twinServers(pkg)]
          /\ connections = <<>>
          /\ bundles = <<ExportedBundle(<<>>)>>
          /\ nextConn = 0
       \/ /\ \E pkg \in {p \in Packages : p.registry_name = Npm /\ p.runtime_hint = JsNull
                                          /\ p.package_arguments = UNDEFINED} :
                synth = Drawn("connection", pkg)
          /\ \E credentials \in Credentials :
                connections = <<[id |-> 1, credentials |-> credentials, updated |-> 0]>>
          /\ bundles = <<ExportedBundle(Attached)>>
          /\ nextConn = 1

NextExport ==
    \/ synthesize
    \/ exportBundle
    \/ exportBundleWithFormat
    \/ \E connectionId \in {1, 2}, packageData \in PackageData(synth.pkg) :
          checkCredentials(connectionId, packageData)
    \/ connections_create
    \/ tick

SpecExport == InitExport /\ [][NextExport]_vars

------------------------------------------------------------------------------
(* Properties of the stores (SpecStore) and of the app (Spec) *)

\* some bundle's serverConnections maps a server to the connection
Referenced(items, connectionId) ==
    \E i \in DOMAIN items : \E s \in DOMAIN items[i].serverConnections :
        items[i].serverConnections[s] = connectionId

\* the bundle getById finds has an entry for the server
Contains(items, bundleId, serverId) ==
    /\ FindIndex(items, bundleId) # 0
    /\ \E k \in DOMAIN items[FindIndex(items, bundleId)].servers :
          items[FindIndex(items, bundleId)].servers[k].serverId = serverId

Conflict == "Cannot delete connection - it is used in one or more bundles"

\* C1: connections.delete(connId) of a connection that some bundle's
\* serverConnections references fails with the Conflict error and leaves the
\* connection in the list; once detachConnection or removeServer has removed
\* the reference the delete succeeds.
C1_ReferencedConnectionIsKept ==
    (/\ last.op = "connections.delete"
     /\ last.out # "Connection not found"
     /\ Referenced(bundles, last.c))
        => /\ last.out = Conflict
           /\ \E i \in DOMAIN connections : connections[i].id = last.c

\* C2: in every reachable state no bundle's servers list has two entries with
\* the same serverId, whatever sequence of create, update, delete, addServer,
\* removeServer, attachConnection, detachConnection and share import led to it.
C2_ServerIdsAreDistinct ==
    \A i \in DOMAIN bundles : \A j, k \in DOMAIN bundles[i].servers :
        bundles[i].servers[j].serverId = bundles[i].servers[k].serverId => j = k

\* an import was confirmed whose preview listed a server twice: the bundle it
\* made has fewer entries than the preview had
C2_DuplicateImportConfirmed ==
    /\ last.op = "confirmImport"
    /\ last.out = "ok"
    /\ \E i \in DOMAIN bundles :
          /\ bundles[i].id = last.b
          /\ bundles[i].servers # <<>>
          /\ Len(bundles[i].servers) < last.p

\* C3: addServer(bundleId, serverId, p) on a bundle that already has an entry
\* for serverId changes nothing, for every p: the list keeps its length and
\* order, the entry keeps its packageIndex, `updated` is not refreshed (and no
\* save is scheduled).
C3_AddPresentServerIsNoOp ==
    [][(last'.op = "addServer" /\ Contains(bundles, last'.b, last'.s))
          => (bundles' = bundles /\ saveTimeouts' = saveTimeouts)]_vars

\* addServer ran on a bundle that had the server with another packageIndex,
\* at a clock reading later than the bundle's `updated`
C3_PresentServerAddedAgain ==
    /\ last.op = "addServer"
    /\ last.out = "present"
    /\ \E i \in DOMAIN bundles :
          /\ bundles[i].id = last.b
          /\ bundles[i].updated < now
          /\ \E k \in DOMAIN bundles[i].servers :
                /\ bundles[i].servers[k].serverId = last.s
                /\ bundles[i].servers[k].packageIndex # last.p

\* C4: after removeServer(bundleId, serverId), getServerConnection(bundleId,
\* serverId) returns null, whatever was attached before.
C4_RemovedServerHasNoConnection ==
    last.op = "removeServer"
        => getServerConnection(bundles, connections, last.b, last.s) = JsNull

\* C5: attachConnection(bundleId, serverId, connectionId) on a bundle without
\* an entry for serverId fails with 'Server not in bundle' and leaves the
\* bundle as it was; with an entry it sets serverConnections[serverId] to
\* connectionId and refreshes `updated`.
C5_AttachNeedsServerInBundle ==
    [][(last'.op = "attachConnection" /\ FindIndex(bundles, last'.b) # 0)
          => LET i == FindIndex(bundles, last'.b) IN
             IF Contains(bundles, last'.b, last'.s)
             THEN /\ last'.out = "ok"
                  /\ bundles'[i].serverConnections[last'.s] = last'.c
                  /\ bundles'[i].updated = now
                  /\ bundles'[i].servers = bundles[i].servers
             ELSE /\ last'.out = "Server not in bundle"
                  /\ bundles' = bundles]_vars

\* attachConnection was refused on a bundle that holds another server
C5_AttachToAbsentServerRefused ==
    /\ last.op = "attachConnection"
    /\ last.out = "Server not in bundle"
    /\ \E i \in DOMAIN bundles :
          /\ bundles[i].id = last.b
          /\ bundles[i].servers # <<>>
          /\ bundles[i].updated < now

\* the share links whose decoded structure lacks a name or a list of servers,
\* or lists no entry that finds a catalogue server
Unusable(d) ==
    \/ ~d.ok
    \/ Get(d.v, KeyName) = UNDEFINED
    \/ Get(d.v, KeyServers).t # "arr"
    \/ \A i \in DOMAIN Get(d.v, KeyServers).v :
          findServer(entryServerId(Get(d.v, KeyServers).v[i])) = 0

UnusableLinks == {k \in DOMAIN ShareTokens : Unusable(decodeShared(ShareTokens[k]))}

\* C10: importFromURL rejects a link whose decoded structure lacks a name or a
\* servers list, or none of whose entries resolves; on every rejection no
\* bundle is created and importPreview and currentView stay as they were.
C10_RejectedImportChangesNothing ==
    [][(last'.op = "importFromURL")
          => /\ last'.tok \in UnusableLinks => last'.out # "ok"
             /\ last'.out # "ok" => UNCHANGED <<bundles, importPreview, currentView>>]_vars

\* a link without resolvable servers was rejected while a preview was shown
C10_RejectedWhilePreviewShown ==
    /\ last.op = "importFromURL"
    /\ last.out = "No valid servers found in shared bundle"
    /\ last.tok \in UnusableLinks
    /\ importPreview.t = "obj"
    /\ currentView = "import-preview"

------------------------------------------------------------------------------
(* Properties of the share codec (SpecCodec) *)

\* the first eight code units are lower-case hexadecimal digits
IsLowerHex8(text) ==
    /\ Len(text) >= 8
    /\ \A i \in 1..8 : (text[i] >= 48 /\ text[i] <= 57) \/ (text[i] >= 97 /\ text[i] <= 102)

\* the name bytes of a packed bundle
PackedName(bytes) == SubSeq(bytes, 6, 5 + bytes[1])

\* the servers unpackBundle returned
UnpackedServers == Get(codec.result.v, KeyServers).v

C7_NameLimitIs255Bytes ==
    codec.stage = "shared"
        => /\ Len(TextEncode(codec.bundle.name)) = 255 => codec.packed.ok
           /\ Len(TextEncode(codec.bundle.name)) = 256 => ~codec.packed.ok
           /\ codec.packed.ok
                 => PackedName(codec.packed.bytes) = TextEncode(codec.bundle.name)

\* C7 (amended): packBundle keeps the first 50 UTF-16 code units of the name
\* and encodes those: it never fails, names of 255 and of 256 UTF-8 bytes are
\* both packed, shortened, and the packed name has at most 150 bytes.
C7_NameIsCutToFiftyUnits ==
    codec.stage = "shared"
        => /\ codec.packed.ok
           /\ codec.packed.bytes[1] <= 150
           /\ PackedName(codec.packed.bytes)
                 = TextEncode(SubSeq(codec.bundle.name, 1,
                                     IF Len(codec.bundle.name) < 50
                                     THEN Len(codec.bundle.name) ELSE 50))

\* a name of 256 UTF-8 bytes was packed
C7_LongNamePacked ==
    /\ codec.stage = "shared"
    /\ Len(TextEncode(codec.bundle.name)) = 256
    /\ codec.packed.ok
    /\ codec.packed.bytes[1] = 50

\* the texts of the catalogue's ids
CatalogueTexts == {IdText(id) : id \in CatalogueIds}

\* C8: a legacy link (standard Base64 of the JSON of { name, servers: [full
\* ids] }) is decoded by the JSON path and imports (a preview is produced)
\* whenever at least one listed id equals a catalogue id.
C8_LegacyLinkImports ==
    (codec.stage = "legacy imported"
     /\ \E i \in DOMAIN codec.bundle.servers : codec.bundle.servers[i] \in CatalogueTexts)
        => /\ codec.result.out = "ok"
           /\ codec.result.path = "json"
           /\ codec.result.preview.name = JsString(codec.bundle.name)
           /\ \A i \in DOMAIN codec.bundle.servers :
                 codec.bundle.servers[i] \in CatalogueTexts
                    => \E k \in DOMAIN codec.result.preview.servers :
                          IdText(codec.result.preview.servers[k]) = codec.bundle.servers[i]

\* a legacy link listing an unknown id and a catalogue id was imported
C8_LegacyLinkImported ==
    /\ codec.stage = "legacy imported"
    /\ codec.bundle.servers = <<Zzz, IdText("abc123")>>
    /\ codec.result.out = "ok"

\* the bytes the app's atob and PHP's base64_decode read from a link
AppPayload == atob(FromUrlSafe(codec.token))
PhpPayload == base64_decode(FromUrlSafe(codec.token))

\* C9 (as stated): both the app's importer and the oEmbed endpoint attempt
\* the binary decoding whenever the payload has at least 5 bytes and the
\* legacy JSON decoding only when it has fewer.
C9_BinaryFirstFromFiveBytes ==
    /\ (codec.stage \in {"imported", "legacy imported"} /\ AppPayload.ok)
          => (codec.result.path = "json" => Len(AppPayload.bytes) < 5)
    /\ codec.stage = "oembed"
          => (codec.result.path = "json" <=> Len(PhpPayload) < 5)

\* C9 (amended): the app's importer attempts JSON.parse first on every
\* payload, of any length, and the binary decoding only when JSON.parse
\* throws; the oEmbed endpoint attempts the binary decoding whenever the
\* payload has at least 5 bytes and the legacy JSON decoding only when it has
\* fewer.
C9_JsonFirstInAppBinaryFirstInOembed ==
    /\ codec.stage \in {"imported", "legacy imported"}
          => IF ~AppPayload.ok THEN codec.result.path = "none"
             ELSE codec.result.path = "json" <=> JSONparse(AppPayload.bytes).ok
    /\ codec.stage = "oembed"
          => (codec.result.path = "json" <=> Len(PhpPayload) < 5)

\* the app read a payload of 5 bytes or more as JSON
C9_LongPayloadReadAsJson ==
    /\ codec.stage = "legacy imported"
    /\ Len(AppPayload.bytes) >= 5
    /\ codec.result.path = "json"
    /\ codec.result.out = "ok"

------------------------------------------------------------------------------
(* Properties of the import preview (SpecCodec) *)

\* what the importer decoded from the link
Decoded == decodeShared(codec.token)

\* the decoded structure has a name and a list of servers
WellFormed(d) ==
    /\ d.ok
    /\ d.v.t = "obj"
    /\ Truthy(Get(d.v, KeyName))
    /\ Get(d.v, KeyServers).t = "arr"

\* some catalogue id equals or starts with the entry's id
Resolves(e) == e.t # "null" /\ findServer(entryServerId(e)) # 0

\* C11: whenever at least one decoded server entry resolves, importFromURL
\* produces a preview in which every decoded entry is in exactly one list:
\* its catalogue server in `servers` if some catalogue id equals or starts
\* with its id, the entry itself in `invalidServers` otherwise; an unresolved
\* entry never makes the import fail.
C11_EveryEntryInOneList ==
    (/\ codec.stage \in {"imported", "legacy imported"}
     /\ WellFormed(Decoded)
     /\ \E i \in DOMAIN Get(Decoded.v, KeyServers).v :
           Resolves(Get(Decoded.v, KeyServers).v[i]))
        => LET entries == Get(Decoded.v, KeyServers).v
               resolved == SelectSeq(entries, Resolves)
               unresolved == SelectSeq(entries, LAMBDA e : ~Resolves(e))
           IN  /\ codec.result.out = "ok"
               /\ codec.result.preview.invalidServers = unresolved
               /\ Len(codec.result.preview.servers) = Len(resolved)
               /\ \A k \in DOMAIN resolved :
                     codec.result.preview.servers[k]
                        = Catalogue[findServer(entryServerId(resolved[k]))]

------------------------------------------------------------------------------
(* Properties of the synthesized configuration and of the export (SpecExport) *)

Built == synth.stage \in {"built", "rebuilt"}

FlaggedSecret(v) == Truthy(v.is_secret)

\* C12: for every package and every environment variable flagged is_secret,
\* the config buildPackageConfig produces with no credentials supplied holds
\* no plaintext value for the variable: its env entry is absent or exactly
\* the placeholder ${NAME}, also when the variable has a default or is not
\* required.
C12_NoPlaintextForSecret ==
    (Built /\ "env" \in DOMAIN synth.config)
        => \A i \in DOMAIN Items(synth.pkg.environment_variables) :
              LET v == Items(synth.pkg.environment_variables)[i] IN
              FlaggedSecret(v)
                  => \/ v.name \notin DOMAIN synth.config.env
                     \/ synth.config.env[v.name] = JsString(Placeholder(v.name))

\* the registry kinds: remote, docker, and those with a runtime
Kind(pkg) ==
    IF pkg.registry_name = Remote THEN "remote"
    ELSE IF pkg.registry_name = Docker THEN "docker"
    ELSE "default"

Exported == synth.stage = "exported" /\ synth.exported.out = "ok"

\* the package selected by the bundle's entry for the server of the drawn
\* package, the config synthesized for it and the key it is exported under
SelectedPackage == getPackageByIndex(synth.servers[2], bundles[1].servers[2].packageIndex)
Synthesized == buildPackageConfig(SelectedPackage)
ExportKey == sanitizedName(synth.servers[2].name)

\* the connection attached to that entry, if there is one
AttachedConnection == getServerConnection(bundles, connections, bundles[1].id, Catalogue[2])
HasConnection == "credentials" \in DOMAIN AttachedConnection

\* config.env[k], undefined where the config has no env or env has no k
EnvOf(config, k) ==
    IF "env" \in DOMAIN config /\ k \in DOMAIN config.env THEN config.env[k] ELSE UNDEFINED

IsBlank(value) == ~Truthy(value) \/ Trim(value.v) = <<>>

\* C14: in an exported launcher config, for the entry with an attached
\* connection and every key k of the connection's credentials, env[k] is the
\* credential's value when that is non-blank (whatever the synthesizer put
\* there) and is as synthesized when the credential's value is blank.
C14_CredentialsOverwriteEnv ==
    (Exported /\ HasConnection)
        => /\ ExportKey \in DOMAIN synth.exported.mcpServers
           /\ \A k \in DOMAIN AttachedConnection.credentials :
                 LET value == AttachedConnection.credentials[k]
                     config == synth.exported.mcpServers[ExportKey]
                 IN  IF IsBlank(value)
                     THEN EnvOf(config, k) = EnvOf(Synthesized, k)
                     ELSE EnvOf(config, k) = value

\* an export where a credential replaced the placeholder of its variable and
\* a blank credential left the placeholder of another
C14_PlaceholderOverwritten ==
    /\ Exported
    /\ HasConnection
    /\ \E k \in DOMAIN AttachedConnection.credentials :
          /\ ~IsBlank(AttachedConnection.credentials[k])
          /\ EnvOf(Synthesized, k) = JsString(Placeholder(k))
          /\ EnvOf(synth.exported.mcpServers[ExportKey], k) = AttachedConnection.credentials[k]
    /\ \E k \in DOMAIN AttachedConnection.credentials :
          /\ IsBlank(AttachedConnection.credentials[k])
          /\ EnvOf(synth.exported.mcpServers[ExportKey], k) = JsString(Placeholder(k))

\* a variable classified as a required secret: flagged required and secret,
\* or named with one of the patterns in any case
Classified(v) ==
    \/ Truthy(v.is_required) /\ Truthy(v.is_secret)
    \/ \E p \in DOMAIN secretPatterns : Includes(ToUpperCase(v.name), secretPatterns[p])

\* C15: in an exported launcher config, for the entry with no attached
\* connection, every variable classified as a required secret (flagged
\* required and secret, or named with KEY, TOKEN, SECRET, PASSWORD, PASS, PWD,
\* AUTH, CREDENTIAL, API, PRIVATE or ACCESS in any case) has a non-empty env
\* value: the value synthesized if there was one, else the placeholder ${NAME}.
C15_RequiredSecretsHaveAValue ==
    (Exported /\ ~HasConnection)
        => /\ ExportKey \in DOMAIN synth.exported.mcpServers
           /\ \A i \in DOMAIN Items(SelectedPackage.environment_variables) :
                 LET v == Items(SelectedPackage.environment_variables)[i]
                     value == EnvOf(synth.exported.mcpServers[ExportKey], v.name)
                 IN  Classified(v)
                        => /\ Truthy(value)
                           /\ value = IF Truthy(EnvOf(Synthesized, v.name))
                                      THEN EnvOf(Synthesized, v.name)
                                      ELSE JsString(Placeholder(v.name))

\* an export without a connection where a variable flagged neither required
\* nor secret, synthesized without a value, got the placeholder for its name
C15_PlaceholderForLikelySecret ==
    /\ Exported
    /\ ~HasConnection
    /\ \E i \in DOMAIN Items(SelectedPackage.environment_variables) :
          LET v == Items(SelectedPackage.environment_variables)[i] IN
          /\ v.is_required = Zero
          /\ v.is_secret = Zero
          /\ EnvOf(Synthesized, v.name) = UNDEFINED
          /\ EnvOf(synth.exported.mcpServers[ExportKey], v.name) = JsString(Placeholder(v.name))

\* C16: exporting a bundle to the launcher format never throws, whatever the
\* registry kind of an entry's package: with a remote package selected, with
\* or without an attached connection, the export completes and its output
\* has the server's config.
C16_ExportNeverThrows ==
    synth.stage = "exported"
        => /\ synth.exported.out = "ok"
           /\ Kind(SelectedPackage) = "remote"
                 => ExportKey \in DOMAIN synth.exported.mcpServers

\* the stored arguments of the package synthesized, and among them the
\* url-typed ones named endpoint and the ones named type, in stored order
StoredArgs == Items(synth.pkg.package_arguments)
EndpointArgs ==
    SelectSeq(StoredArgs, LAMBDA arg : arg.type = UrlType /\ arg.name = JsString(Endpoint))
TypeArgs == SelectSeq(StoredArgs, LAMBDA arg : arg.name = JsString(TypeName))

\* the entry of the known-service table for the package name, if any
KnownUrl ==
    IF synth.pkg.package_name \in {JsString(Github), JsString(GithubUrl)}
    THEN JsString(GithubUrl)
    ELSE UNDEFINED

BuiltRemote == Built /\ Kind(synth.pkg) = "remote"

\* C17 as stated: for a remote package the url is the value of the url-typed
\* argument named endpoint if there is one, else the known-service entry for
\* the package name if there is one, else 'https://example.com/mcp'; the type
\* is the value of the argument named type if there is one, else 'http'.
C17_UrlOfPresentArgument ==
    BuiltRemote
        => /\ synth.config.url =
                 IF EndpointArgs # <<>> THEN EndpointArgs[1].value
                 ELSE IF KnownUrl # UNDEFINED THEN KnownUrl
                 ELSE JsString(FallbackUrl)
           /\ synth.config.type =
                 IF TypeArgs # <<>> THEN TypeArgs[1].value ELSE JsString(Http)

\* C17, amended: an argument counts only when the first such argument has a
\* non-empty value; an endpoint argument with an empty or null value gives
\* the known-service entry or the literal, a type argument with an empty or
\* null value gives 'http'.
C17_UrlOfNonEmptyArgument ==
    BuiltRemote
        => /\ synth.config.url =
                 IF EndpointArgs # <<>> /\ Truthy(EndpointArgs[1].value)
                 THEN EndpointArgs[1].value
                 ELSE IF KnownUrl # UNDEFINED THEN KnownUrl
                 ELSE JsString(FallbackUrl)
           /\ synth.config.type =
                 IF TypeArgs # <<>> /\ Truthy(TypeArgs[1].value)
                 THEN TypeArgs[1].value
                 ELSE JsString(Http)

\* a remote package of a known service with an endpoint argument of empty
\* value: the url is the known service's
C17_EmptyEndpointFallsThrough ==
    /\ BuiltRemote
    /\ EndpointArgs # <<>>
    /\ EndpointArgs[1].value = JsString(<<>>)
    /\ KnownUrl # UNDEFINED
    /\ synth.config.url = KnownUrl

\* the per-registry default command
DefaultCommand(registry) ==
    CASE registry = Npm -> Npx
      [] registry = Pypi -> Uvx
      [] registry = Nuget -> Dnx
      [] OTHER -> Npx

\* C18: for a package whose registry kind is neither remote nor docker and
\* that has no stored arguments, the command is the runtime hint if one is
\* set, else the registry's default (npm: npx, pypi: uvx, nuget: dnx, any
\* other: npx), the args are the package name alone, and env maps every
\* variable NAME that is required and secret to ${NAME}.
C18_DefaultKindConfig ==
    (Built /\ Kind(synth.pkg) = "default" /\ StoredArgs = <<>>)
        => /\ synth.config.command =
                 IF Truthy(synth.pkg.runtime_hint) THEN synth.pkg.runtime_hint
                 ELSE JsString(DefaultCommand(synth.pkg.registry_name))
           /\ synth.config.args = <<Or(synth.pkg.package_name, synth.pkg.name)>>
           /\ \A i \in DOMAIN Items(synth.pkg.environment_variables) :
                 LET v == Items(synth.pkg.environment_variables)[i] IN
                 (Truthy(v.is_required) /\ Truthy(v.is_secret))
                    => EnvOf(synth.config, v.name) = JsString(Placeholder(v.name))

\* a pypi package without hint and arguments, with a required secret
\* variable: uvx, the package name, the placeholder
C18_PypiPackageSynthesized ==
    /\ Built
    /\ synth.pkg.registry_name = Pypi
    /\ synth.pkg.runtime_hint = JsNull
    /\ StoredArgs = <<>>
    /\ synth.config.command = JsString(Uvx)
    /\ synth.config.args = <<synth.pkg.package_name>>
    /\ \E i \in DOMAIN Items(synth.pkg.environment_variables) :
          LET v == Items(synth.pkg.environment_variables)[i] IN
          /\ v.is_required = JsTrue
          /\ v.is_secret = JsTrue
          /\ synth.config.env[v.name] = JsString(Placeholder(v.name))

\* the stored positional arguments of the selected package, and the '-e',
\* name pairs of its variables that are required or secret
PositionalValues ==
    LET stored == SelectSeq(Items(SelectedPackage.package_arguments),
                            LAMBDA arg : arg.type = Positional)
    IN  [i \in DOMAIN stored |-> stored[i].value]

EnvFlags ==
    LET vs == Items(SelectedPackage.environment_variables) IN
    Flatten([i \in DOMAIN vs |->
                IF Truthy(vs[i].is_required) \/ Truthy(vs[i].is_secret)
                THEN <<JsString(DashE), JsString(vs[i].name)>>
                ELSE <<>>])

\* C19: for a docker package as it reaches the export (after the catalogue
\* transform), args are the stored positional arguments in stored order when
\* there are any; otherwise 'run', '-i', '--rm', then '-e' and the name for
\* every variable that is required or secret, in declaration order, and last
\* the package's image name.
C19_DockerArgs ==
    (Exported /\ Kind(SelectedPackage) = "docker")
        => /\ ExportKey \in DOMAIN synth.exported.mcpServers
           /\ synth.exported.mcpServers[ExportKey].args =
                 IF PositionalValues # <<>> THEN PositionalValues
                 ELSE <<JsString(RunWord), JsString(DashI), JsString(DashRm)>>
                         \o EnvFlags \o <<SelectedPackage.name>>

\* the call hasRequiredCredentials(id, packageSpec) made: whether the
\* connection existed among the store's items then, its credentials (none when it does not exist), whether
\* a packageSpec was passed and the variables the packageSpec lists
Checked == synth.stage = "checked"
CheckedExists == \E i \in DOMAIN synth.has.items : synth.has.items[i].id = synth.has.c
CheckedCredentials ==
    IF CheckedExists THEN connections_get(synth.has.items, synth.has.c).credentials ELSE <<>>
WithPackageSpec == "registry_name" \in DOMAIN synth.has.p
WithVariableList == WithPackageSpec /\ synth.has.p.environment_variables.t = "arr"
SpecVariables ==
    IF WithPackageSpec THEN Items(synth.has.p.environment_variables) ELSE <<>>

\* every is_required variable has a non-blank value in the credentials
RequiredFilled ==
    \A i \in DOMAIN SpecVariables :
        Truthy(SpecVariables[i].is_required)
            => /\ SpecVariables[i].name \in DOMAIN CheckedCredentials
               /\ ~IsBlank(CheckedCredentials[SpecVariables[i].name])

\* C20 as stated: with a packageSpec hasRequiredCredentials returns true if
\* and only if every is_required variable of the package has a non-blank
\* value in the connection's credentials (so true when the package has no
\* required variable); without a packageSpec it returns true if and only if
\* the connection has at least one credential entry.
C20_TrueIffRequiredFilled ==
    Checked
        => synth.has.v = IF WithPackageSpec THEN RequiredFilled
                         ELSE DOMAIN CheckedCredentials # {}

\* C20, amended: it returns false when the connection does not exist; for an
\* existing connection and a packageSpec that has a list of variables it
\* returns true if and only if every is_required variable has a non-blank
\* value in the credentials; without a packageSpec, or with one that has no
\* list of variables, true if and only if there is a credential entry.
C20_TrueIffConnectionAndRequiredFilled ==
    Checked
        => synth.has.v = (/\ CheckedExists
                          /\ IF WithVariableList THEN RequiredFilled
                             ELSE DOMAIN CheckedCredentials # {})

\* calls the amendment is about: a connection that does not exist asked
\* about a package without required variables
C20_MissingConnectionIsFalse ==
    /\ Checked
    /\ ~CheckedExists
    /\ WithVariableList
    /\ RequiredFilled
    /\ synth.has.v = FALSE

------------------------------------------------------------------------------
(* C28: the arguments of a default-kind package *)

\* the words Docker's own command line starts with
IsBootstrap(value) ==
    value \in {JsString(RunWord), JsString(DashI), JsString(DashRm), JsString(DashE)}

\* the stored arguments that are rendered, in declared order
Kept ==
    SelectSeq(StoredArgs,
              LAMBDA arg : \/ arg.type = Named
                           \/ arg.type = Positional /\ ~IsBootstrap(arg.value))

\* a named argument as its name and its non-empty value, a positional one as
\* its bare value
Words(arg) ==
    IF arg.type = Positional THEN <<arg.value>>
    ELSE IF arg.value \in {UNDEFINED, JsNull, JsString(<<>>)} THEN <<arg.name>>
    ELSE <<arg.name, arg.value>>

Rendered == Flatten([i \in DOMAIN Kept |-> Words(Kept[i])])

PackageName == Or(synth.pkg.package_name, synth.pkg.name)

\* C28: for a default-kind package with stored arguments, the args are the
\* named and positional arguments in declared order (a named one as its name
\* followed by its value when the value is non-empty, a positional one as its
\* bare value) without the positional ones whose value is run, -i, --rm or
\* -e, followed by the package name exactly when it is not among them.
C28_ArgsReplayStoredArguments ==
    (Built /\ Kind(synth.pkg) = "default" /\ StoredArgs # <<>>)
        => synth.config.args =
              IF \E i \in DOMAIN Rendered : Rendered[i] = PackageName
              THEN Rendered
              ELSE Append(Rendered, PackageName)

\* a named argument with a value and a positional one, then the package name
C28_NamedThenPositionalThenName ==
    /\ Built
    /\ Kind(synth.pkg) = "default"
    /\ Len(StoredArgs) = 2
    /\ synth.config.args =
          <<JsString(PortFlag), JsString(Nine), JsString(Image), JsString(Tool)>>

------------------------------------------------------------------------------
(* C24: the keys of the launcher export *)

\* the entries of the exported bundle whose server is in the catalogue and
\* has a package
Resolved ==
    {i \in DOMAIN bundles[1].servers :
        /\ findExact(synth.servers, bundles[1].servers[i].serverId) # 0
        /\ synth.servers[findExact(synth.servers, bundles[1].servers[i].serverId)].packages # <<>>}

ServerOf(i) == synth.servers[findExact(synth.servers, bundles[1].servers[i].serverId)]

\* the config exportClaudeFormat computes for the entry itself
OwnConfig(i) == exportEntry(synth.servers, bundles, connections, bundles[1],
                            bundles[1].servers[i]).config

\* C24: right after a launcher export, every entry of the bundle whose server
\* and package resolve has the key slug(server.name) in mcpServers, mapped to
\* that entry's own config, and two distinct entries never share a key.
C24_OneKeyPerBundledServer ==
    (last.op = "exportBundle" /\ synth.exported.out = "ok")
        => /\ \A i \in Resolved :
                 /\ sanitizedName(ServerOf(i).name) \in DOMAIN synth.exported.mcpServers
                 /\ synth.exported.mcpServers[sanitizedName(ServerOf(i).name)] = OwnConfig(i)
           /\ \A i, j \in Resolved :
                 i # j => sanitizedName(ServerOf(i).name) # sanitizedName(ServerOf(j).name)

------------------------------------------------------------------------------
(* C23: the self-describing export *)

\* C23: after a self-describing export of a bundle whose entries have the
\* shape {serverId, packageIndex, connectionId}, the exported bundle has a
\* server entry for every bundle entry whose server is in the catalogue: it
\* carries the server's name and, when the server has a package, that
\* package's synthesized config, and each of its credential records has a
\* name, a required flag and a hasValue flag.
C23_EntryForEveryCatalogueServer ==
    synth.stage = "custom"
        => \A i \in DOMAIN bundles[1].servers :
              findExact(synth.servers, bundles[1].servers[i].serverId) # 0
                 => \E k \in DOMAIN synth.exported.servers :
                       LET entry == synth.exported.servers[k] IN
                       /\ entry.name = ServerOf(i).name
                       /\ \/ ServerOf(i).packages = <<>>
                          \/ DOMAIN entry.config = {"command", "args", "env"}
                       /\ \A c \in DOMAIN entry.credentials :
                             DOMAIN entry.credentials[c] = {"name", "required", "hasValue"}

------------------------------------------------------------------------------
(* SpecConnections: the operations of the two stores that are addressed by *)
(* an id, with ids that are and ids that are not in the store              *)

\* the values a credential is set to: 'sk-123' and the empty string
SecretValues == {JsString(SkKey), JsString(<<>>)}

NextConnections ==
    \/ \E name \in BundleNames : bundles_create(name)
    \/ \E bundleId \in BundleIds, name \in BundleNames : bundles_update(bundleId, name)
    \/ \E bundleId \in BundleIds : bundles_delete(bundleId)
    \/ connections_create
    \/ \E connectionId \in ConnectionIds, credentials \in Credentials :
          connections_update(connectionId, credentials)
    \/ \E connectionId \in ConnectionIds : connections_delete(connectionId)
    \/ \E connectionId \in ConnectionIds, secretName \in {API_KEY, PORT},
          value \in SecretValues :
          connections_setCredential(connectionId, secretName, value)
    \/ \E connectionId \in ConnectionIds, secretName \in {API_KEY, PORT} :
          connections_removeCredential(connectionId, secretName)
    \/ tick

SpecConnections == Init /\ [][NextConnections]_vars

------------------------------------------------------------------------------
(* C21: operations addressed to an absent id *)

BundleOps == {"update", "delete"}

ConnectionOps == {"connections.update", "connections.delete",
                  "connections.setCredential", "connections.removeCredential"}

\* the operation that just ran was addressed to an id its store did not hold
AbsentId ==
    \/ last'.op \in BundleOps /\ FindIndex(bundles, last'.b) = 0
    \/ last'.op \in ConnectionOps /\ ConnectionIndex(connections, last'.c) = 0

\* C21: bundle update and delete and connection update, delete, setCredential
\* and removeCredential, called with an id that is absent from the store,
\* throw a not-found error and leave both stores unchanged.
C21_AbsentIdSignalsNotFound ==
    [][AbsentId => /\ last'.out \in {"Bundle not found", "Connection not found"}
                   /\ UNCHANGED <<bundles, connections>>]_vars

------------------------------------------------------------------------------
(* C26: single-key mutations of a connection's credentials *)

\* the connection the operation was addressed to, before and after
Addressed == connections[ConnectionIndex(connections, last'.c)]
AddressedAfter == connections'[ConnectionIndex(connections, last'.c)]

OtherKeysKept(name) ==
    /\ DOMAIN AddressedAfter.credentials \ {name} = DOMAIN Addressed.credentials \ {name}
    /\ \A k \in DOMAIN Addressed.credentials \ {name} :
          AddressedAfter.credentials[k] = Addressed.credentials[k]

\* C26: on an existing connection, removeCredential(id, name) leaves name
\* absent from the credentials and, whenever name was a key of them
\* whatever its value, refreshes updated; setCredential(id, name, value) sets
\* credentials[name] = value and refreshes updated; neither changes any
\* other key.
C26_SingleKeyMutations ==
    [][/\ (last'.op = "connections.removeCredential"
             /\ ConnectionIndex(connections, last'.c) # 0)
          => /\ last'.p.name \notin DOMAIN AddressedAfter.credentials
             /\ last'.p.name \in DOMAIN Addressed.credentials
                   => AddressedAfter.updated = now
             /\ OtherKeysKept(last'.p.name)
       /\ (last'.op = "connections.setCredential"
             /\ ConnectionIndex(connections, last'.c) # 0)
          => /\ last'.p.name \in DOMAIN AddressedAfter.credentials
             /\ AddressedAfter.credentials[last'.p.name] = last'.p.value
             /\ AddressedAfter.updated = now
             /\ OtherKeysKept(last'.p.name)]_vars

------------------------------------------------------------------------------
(* SpecIds: bundles are created, by hand and by import, while the clock may *)
(* or may not have advanced in between                                      *)

\* the bundles the list may hold at once
MaxTwins == 2

NextIds ==
    \/ \E name \in BundleNames : bundles_createUpTo(name, MaxTwins)
    \/ \E tok \in DOMAIN ShareTokens : importFromURL(tok)
    \/ confirmImportUpTo(MaxTwins)
    \/ \E bundleId \in BundleIds, serverId \in CatalogueIds :
          bundles_addServer(bundleId, serverId, 0)
    \/ tick

SpecIds == Init /\ [][NextIds]_vars

------------------------------------------------------------------------------
(* C25: bundle ids *)

\* C25: in every reachable state the bundles of the store have pairwise
\* distinct ids, for any sequence of creates, several at one clock reading
\* included.
C25_BundleIdsAreDistinct ==
    \A i, j \in DOMAIN bundles : i # j => bundles[i].id # bundles[j].id

------------------------------------------------------------------------------
(* C27: confirming an import *)

\* the ids of the preview's servers, and the positions where an id occurs
\* for the first time
PreviewIds == importPreview.servers
FirstSeen == {i \in DOMAIN PreviewIds : \A j \in 1..(i - 1) : PreviewIds[j] # PreviewIds[i]}
Nth(S, k) == CHOOSE x \in S : Cardinality({y \in S : y < x}) = k - 1

Confirmed == last'.op = "confirmImport" /\ last'.out = "ok"

\* C27: a confirmed import appends exactly one bundle, which carries the
\* previewed name and whose servers are the distinct servers of the preview,
\* one entry each, in preview order; no bundle that existed before is
\* modified.
C27_ImportCreatesOneBundle ==
    [][Confirmed
         => /\ Len(bundles') = Len(bundles) + 1
            /\ \A i \in DOMAIN bundles : bundles'[i] = bundles[i]
            /\ bundles'[Len(bundles')].name = importPreview.name.v
            /\ [i \in DOMAIN bundles'[Len(bundles')].servers |->
                   bundles'[Len(bundles')].servers[i].serverId]
               = [k \in 1..Cardinality(FirstSeen) |-> PreviewIds[Nth(FirstSeen, k)]]]_vars

------------------------------------------------------------------------------
(* SpecSave: the stores are changed and saved while the clock runs, in     *)
(* steps of a quarter of a second                                          *)

\* the clock's last reading, in milliseconds
MaxSaveClock == 1000

\* a quarter of a second: half the delay of a save
Quarter == Delay \div 2

SaveTimes == {t \in 0..MaxSaveClock : t % Quarter = 0}

\* every id a bundle created within the clock's range can have
SaveIds == {ToString(t) : t \in SaveTimes}

DebouncedKeys == {STORAGE_KEYS.bundles, STORAGE_KEYS.cache}

NextSave ==
    \/ \E name \in BundleNames : bundles_create(name)
    \/ \E bundleId \in SaveIds, name \in BundleNames : bundles_update(bundleId, name)
    \/ connections_create
    \/ \E connectionId \in ConnectionIds :
          connections_setCredential(connectionId, API_KEY, JsString(SkKey))
    \/ cache_set("servers", "a", <<>>)
    \/ clearAllData
    \/ \E key \in DebouncedKeys : saveTimerFires(key)
    \/ elapse(Quarter, MaxSaveClock)

SpecSave == Init /\ [][NextSave]_vars

------------------------------------------------------------------------------
(* C22: when the stores are written *)

BundlesWritten ==
    /\ STORAGE_KEYS.bundles \in DOMAIN localStorage'
    /\ \/ STORAGE_KEYS.bundles \notin DOMAIN localStorage
       \/ localStorage'[STORAGE_KEYS.bundles] # localStorage[STORAGE_KEYS.bundles]
       \/ last'.op = "saveTimerFires" /\ last'.path = STORAGE_KEYS.bundles

BundlesSaved == last'.op \in {"create", "update", "delete", "clearAllData"} /\ last'.out = "ok"

ConnectionsSaved ==
    last'.op \in {"connections.create", "connections.setCredential"} /\ last'.out = "ok"

------------------------------------------------------------------------------
(* C29: one timer per key *)

\* the keys whose save the step scheduled or fired
KeysOf(op) ==
    IF op.op = "saveTimerFires" THEN {op.path}
    ELSE IF op.op = "clearAllData" THEN DebouncedKeys
    ELSE IF op.op \in {"cache.set", "cache.get"} THEN {STORAGE_KEYS.cache}
    ELSE IF op.op \in {"create", "update", "delete"} THEN {STORAGE_KEYS.bundles}
    ELSE {}

\* C29: scheduling or firing the save of one key leaves the pending save of
\* every other key as it was: still pending, due at the same time, and
\* nothing is written under the other key.
C29_OtherKeysUntouched ==
    [][\A key \in DOMAIN saveTimeouts :
          key \notin KeysOf(last')
             => /\ key \in DOMAIN saveTimeouts'
                /\ saveTimeouts'[key] = saveTimeouts[key]
                /\ key \in DOMAIN localStorage
                      => /\ key \in DOMAIN localStorage'
                         /\ localStorage'[key] = localStorage[key]
                /\ key \notin DOMAIN localStorage => key \notin DOMAIN localStorage']_vars

\* the cache was saved while the save of the bundles was pending, which is
\* still due at its own, earlier time
C29_CacheSetWhileBundlesPending ==
    /\ last.op = "cache.set"
    /\ STORAGE_KEYS.bundles \in DOMAIN saveTimeouts
    /\ saveTimeouts[STORAGE_KEYS.bundles] < saveTimeouts[STORAGE_KEYS.cache]

------------------------------------------------------------------------------
(* SpecCache: the cache is set and read within seconds and a day later *)

\* the clock's last reading before and after the day that passes
MaxCacheClock == 2000

\* one second, an expiry given to set
Second == 2 * Delay

NextCache ==
    \/ \E data \in {"a", "b"}, maxAge \in {<<>>, <<Second>>} :
          cache_set("servers", data, maxAge)
    \/ \E key \in {"servers", "tags"} : cache_get(key)
    \/ saveTimerFires(STORAGE_KEYS.cache)
    \/ elapse(Delay, MaxCacheClock)
    \/ elapse(Day, Day + MaxCacheClock)

SpecCache == Init /\ [][NextCache]_vars

------------------------------------------------------------------------------
(* C30: reading the cache *)

\* the age at which the entry expires: the maxAge set was given, 24 hours
\* when it was given none
ExpiryOf(cached) == IF cached.maxAge = <<>> THEN Day ELSE cached.maxAge[1]

\* C30: cache.get(key) returns the stored data when there is an entry for
\* the key whose age does not exceed its expiry, leaving the cache as it is;
\* for an expired entry it removes the entry, schedules a save and returns
\* null; for a missing key it returns null and changes nothing.
C30_GetHonoursExpiry ==
    [][last'.op = "cache.get"
         => IF last'.path \notin DOMAIN cache
            THEN last'.out = NULL /\ UNCHANGED <<cache, saveTimeouts>>
            ELSE IF now - cache[last'.path].timestamp <= ExpiryOf(cache[last'.path])
            THEN last'.out = cache[last'.path].data /\ UNCHANGED <<cache, saveTimeouts>>
            ELSE /\ last'.out = NULL
                 /\ last'.path \notin DOMAIN cache'
                 /\ STORAGE_KEYS.cache \in DOMAIN saveTimeouts'
                 /\ saveTimeouts'[STORAGE_KEYS.cache] = now + Delay]_vars

------------------------------------------------------------------------------
(* C31: the keys of serverConnections *)

\* C31: in every reachable state, every serverId that is a key of a bundle's
\* serverConnections has an entry in that bundle's servers list.
C31_MappedServersAreInTheBundle ==
    \A i \in DOMAIN bundles :
        \A serverId \in DOMAIN bundles[i].serverConnections :
            \E k \in DOMAIN bundles[i].servers :
                bundles[i].servers[k].serverId = serverId

------------------------------------------------------------------------------
(* SpecCatalogue: servers are loaded into the catalogue view and added to *)
(* bundles from it                                                        *)

NextCatalogue ==
    \/ loadServers
    \/ \E name \in BundleNames : bundles_create(name)
    \/ \E bundleId \in BundleIds : bundles_delete(bundleId)
    \/ \E bundleId \in BundleIds, i \in DOMAIN view.servers :
          addServerToBundle(bundleId, view.servers[i])
    \/ \E bundleId \in BundleIds, serverId \in CatalogueIds :
          bundles_removeServer(bundleId, serverId)
    \/ tick

SpecCatalogue == Init /\ [][NextCatalogue]_vars

------------------------------------------------------------------------------
(* C32: the package index of an entry added from the catalogue view *)

\* the entry addServerToBundle has just pushed
AddedEntry ==
    LET bundle == bundles'[FindIndex(bundles', last'.b)] IN
    bundle.servers[Len(bundle.servers)]

\* C32: when a catalogue server is added to a bundle from the catalogue
\* view, the entry created has the server's id and the package index
\* selected for the server in the view (0 when none is selected).
C32_EntryHasSelectedPackage ==
    [][(last'.op = "addServerToBundle" /\ last'.out = "ok")
          => /\ AddedEntry.serverId = last'.s
             /\ AddedEntry.packageIndex = selectedIndex(view.selectedPackageIndex, last'.s)]_vars

------------------------------------------------------------------------------
(* SpecLegacy: the view loads a catalogue and the app is opened with links *)
(* of the legacy format                                                    *)

MaxLegacy == 2

\* ids of the servers the database may hold: one of them starts with another
LegacyIds == {"abc123", "abc", "1a2b3c4d-e5f6"}

\* the lists loadServers may get from the database: any order of any of them
LegacyCatalogues ==
    {c \in UNION {[1..n -> [id : LegacyIds, packages : {<<[registry_name |-> "npm"]>>}]] :
                     n \in 1..Cardinality(LegacyIds)} :
        \A i, j \in DOMAIN c : c[i].id = c[j].id => i = j}

\* the id lists of the legacy links: full ids of the catalogue and a foreign one
LegacyLists ==
    UNION {[1..n -> {IdText(id) : id \in LegacyIds} \cup {Zzz}] : n \in 1..MaxLegacy}

\* what the first steps of importFromURL make of the link of each list
LegacyDecoded == [ids \in LegacyLists |-> decodeShared(legacyShare(OldBundle, ids))]

NextLegacy ==
    \/ \E c \in LegacyCatalogues : loadServersFrom(c)
    \/ \E ids \in LegacyLists : importLegacy(LegacyDecoded[ids])

SpecLegacy == Init /\ [][NextLegacy]_vars

------------------------------------------------------------------------------
(* C33: a full id of a legacy link and the catalogue entry it resolves to *)

\* C33: when a legacy share payload lists a full id that equals some
\* catalogue entry's id, import resolves that entry to the catalogue entry
\* with exactly that id, even when another catalogue entry's id merely
\* starts with the same string and comes earlier in the catalogue.
C33_ExactIdResolvesToItself ==
    [][(last'.op = "importLegacy" /\ last'.out = "ok")
          => \A k \in DOMAIN last'.p :
                (\E i \in DOMAIN view.servers : IdText(view.servers[i].id) = last'.p[k])
                   => IdText(importPreview'.servers[k]) = last'.p[k]]_vars

------------------------------------------------------------------------------
(* SpecFair: the bundle store is changed while the clock runs; a timer     *)
(* that is due fires and the clock does not stop. Changes are made up to   *)
(* MaxFairClock and the clock runs one delay further                       *)

MaxFairClock == 500

\* the backups importAll is given: one with a bundle and one without a list
Backups ==
    {[version |-> "1.0", bundles |-> <<NewBundle(<<68, 101, 118>>, <<>>, 0)>>],
     [version |-> "1.0"]}

FairIds == {ToString(t) : t \in {t \in 0..MaxFairClock : t % Quarter = 0}}

Mutation ==
    \/ \E name \in BundleNames : bundles_create(name)
    \/ \E bundleId \in FairIds, name \in BundleNames : bundles_update(bundleId, name)
    \/ \E bundleId \in FairIds : bundles_delete(bundleId)
    \/ \E bundleId \in FairIds, serverId \in CatalogueIds :
          bundles_addServer(bundleId, serverId, 0)
    \/ \E bundleId \in FairIds, serverId \in CatalogueIds :
          bundles_removeServer(bundleId, serverId)
    \/ \E data \in Backups : bundles_importAll(data)
    \/ clearAllData

FairTimer == saveTimerFires(STORAGE_KEYS.bundles) \/ saveTimerFires(STORAGE_KEYS.cache)

FairClock == elapse(Quarter, MaxFairClock + Delay)

NextFair ==
    \/ now <= MaxFairClock /\ Mutation
    \/ FairTimer
    \/ FairClock

SpecFair == Init /\ [][NextFair]_vars /\ WF_vars(FairTimer) /\ WF_vars(FairClock)

------------------------------------------------------------------------------
(* C34: the persisted bundle list follows the list in memory *)

\* the bundle list as the store reads it from storage:
\* storage.get(STORAGE_KEYS.bundles) || []
PersistedBundles ==
    IF STORAGE_KEYS.bundles \in DOMAIN localStorage
    THEN localStorage[STORAGE_KEYS.bundles]
    ELSE <<>>

------------------------------------------------------------------------------
(* SpecDatabase: calls of init, ensureReady, a query and close overlap *)
(* with the load of the database file                                  *)

NextDatabase ==
    \/ database_init
    \/ database_ensureReady
    \/ database_getServers
    \/ database_close
    \/ loadSucceeds
    \/ \E error \in LoadErrors : loadFails(error)

SpecDatabase == Init /\ [][NextDatabase]_vars

------------------------------------------------------------------------------
(* SpecRequests: the list is loaded, searched and filtered by category *)
(* while the database file is loading and after                        *)

Categories == {"All Servers", "Dev", "Data"}

\* what the search box may hold: nothing, a blank, the term abc
SearchQueries == {<<>>, <<32>>, Abc}

NextRequests ==
    \/ loadServersBegins
    \/ \E categoryName \in Categories : selectCategory(categoryName)
    \/ \E searchQuery \in SearchQueries : performSearch(searchQuery)
    \/ searchTimerFires
    \/ microtask
    \/ loadSucceeds
    \/ \E error \in LoadErrors : loadFails(error)

SpecRequests == Init /\ [][NextRequests]_vars

------------------------------------------------------------------------------
(* C35: the list shown after searches and category selections *)

\* C35: after any interleaving of search requests and category selections,
\* once every asynchronous load has completed, the displayed servers list
\* is the result of the most recently issued request; a result of an
\* earlier request that completes later never replaces it.
C35_LatestRequestIsShown ==
    (/\ view.issued > 0
     /\ view.waiting = <<>>
     /\ view.microtasks = <<>>
     /\ database.dbReady)
        => view.servers = view.latest

------------------------------------------------------------------------------
(* C36: the database when ensureReady() resolves *)

\* a step at which a call of ensureReady resolves, by itself or within a query
EnsureReadyResolves ==
    \/ last'.op \in {"ensureReady", "getServers"}
          /\ last'.out \notin {"pending"} \cup LoadErrors
    \/ last'.op = "loadSucceeds"
          /\ \E i \in DOMAIN last'.p : last'.p[i] \in {"ensureReady", "getServers"}

\* C36: whenever MCPDatabase.ensureReady() resolves, the database handle is
\* non-null and dbReady is true, after any sequence of init, query and close
\* calls; in particular a query issued after close() reopens the database
\* instead of running against a null handle.
C36_ReadyWhenEnsureReadyResolves ==
    [][EnsureReadyResolves
          => /\ database'.db # NULL
             /\ database'.dbReady
             /\ last'.op = "getServers" => last'.out = "rows"]_vars

------------------------------------------------------------------------------
(* C37: one load for all the calls of init and ensureReady *)

\* a step at which a call of init or ensureReady resolves
CallResolves ==
    \/ last'.op \in {"init", "ensureReady"} /\ last'.out = "resolved"
    \/ last'.op = "loadSucceeds"

\* a call of init or ensureReady made after the load has failed
CalledAfterFailure ==
    /\ database.initPromise = "rejected"
    /\ last'.op \in {"init", "ensureReady"}

------------------------------------------------------------------------------
(* SpecCredentials: the credentials store is unlocked, read, written, *)
(* saved, locked and cleared                                          *)

\* what is kept for a server: the value of one variable
Secret == [t |-> "obj", API_KEY |-> SkKey]

\* the objects save is given
SavedCredentials == {NoCredentials, [t |-> "obj", v |-> [id \in {Catalogue[1]} |-> Secret]]}

Passphrases == {Passphrase, Passphrasf, Pw, <<>>}

NextCredentials ==
    \/ \E passphrase \in Passphrases : credentials_unlock(passphrase)
    \/ \E credentials \in SavedCredentials, passphrase \in Passphrases :
          credentials_save(credentials, passphrase)
    \/ \E i \in 1..MaxCrypto : cryptoSettles(i)
    \/ \E serverId \in CatalogueIds : credentials_get(serverId)
    \/ \E serverId \in CatalogueIds : credentials_set(serverId, Secret)
    \/ \E serverId \in CatalogueIds : credentials_remove(serverId)
    \/ credentials_lock
    \/ credentials_clear

SpecCredentials == Init /\ [][NextCredentials]_vars

------------------------------------------------------------------------------
(* C38: the locked credentials store *)

\* C38: in the passphrase-protected credentials store, in every state where
\* the store is locked, get(serverId) returns null for every server and
\* set(serverId, c) throws 'Credentials are locked' without changing the
\* data; lock() and clear() always leave the store locked, and a failed
\* unlock never turns a locked store into an unlocked one.
C38_LockedStoreGivesNothing ==
    [][/\ (~credentialsStore.isUnlocked /\ last'.op = "credentials.get")
             => last'.p = JsNull
       /\ (~credentialsStore.isUnlocked /\ last'.op = "credentials.set")
             => /\ last'.out = "Credentials are locked"
                /\ credentialsStore'.data = credentialsStore.data
       /\ last'.op \in {"credentials.lock", "credentials.clear"}
             => ~credentialsStore'.isUnlocked
       /\ (/\ ~credentialsStore.isUnlocked
           /\ last'.op = "unlock settles"
           /\ last'.out = "Invalid passphrase")
             => ~credentialsStore'.isUnlocked]_vars

\* the locked store holds a credential that save gave it, and get(serverId)
\* has returned null for its server
C38_NullFromLockedStoreWithData ==
    /\ last.op = "credentials.get"
    /\ last.p = JsNull
    /\ ~credentialsStore.isUnlocked
    /\ credentialsStore.data.t = "obj"
    /\ last.s \in DOMAIN credentialsStore.data.v

====
